---- MODULE Spec2Model ----
(***************************************************************************)
(* Procedural terrain of maritime-terrain-visualization: TerrainGenerator  *)
(* (seed points, Voronoi islands, domain warp, land/water blend, edge      *)
(* falloff, heightmap sweep), Terrain (mesh applicator), the terrain       *)
(* control panels, and the animation frame of SceneManager.                *)
(*                                                                         *)
(* Numbers.  A JavaScript number is modelled in fixed point: the integer n *)
(* stands for n/100 (0.3 is 30, -10 is -1000).  Arithmetic rounds down to  *)
(* a hundredth.  Grid indices, counts and seed coordinates are plain       *)
(* integers, as in the source.  A Float32Array element holds less          *)
(* precision than a number: Fround rounds to a quarter.                    *)
(***************************************************************************)
EXTENDS Integers, Sequences, FiniteSets, TLC

\* 1.0 in fixed point.
One == 10 * 10

Abs(a) == IF a < 0 THEN -a ELSE a
Min2(a, b) == IF a <= b THEN a ELSE b

\* a * b and a / b on fixed-point numbers.
Mul(a, b) == (a * b) \div One
Div(a, b) == (a * One) \div b

\* The fixed-point number of an integer.
Num(i) == i * One

RECURSIVE SqrtNewton(_, _)
\* Newton's iteration for the square root of n > 0, from r >= sqrt(n) down
\* to the largest r with r * r <= n.
SqrtNewton(n, r) ==
  LET Step(next) == IF next >= r THEN r ELSE SqrtNewton(n, next)
  IN Step((r + n \div r) \div 2)

\* Math.sqrt on an integer: the largest r with r * r <= n.
Isqrt(n) == IF n = 0 THEN 0 ELSE SqrtNewton(n, 46340)

\* Math.exp(-z) for z >= 0: 1 / (1 + z + z^2/2 + z^3/6), which is 1 at 0 and
\* decreasing in z; below a hundredth from z = 10 on.
ExpNeg(z) ==
  IF z >= 10 * One THEN 0
  ELSE (One * One * One) \div
         (One * One + One * z + (z * z) \div 2 + (z * z * z) \div (6 * One))

\* Math.cos(Math.PI * t) for 0 <= t <= 1/2 (Bhaskara's formula, exact at 0,
\* 1/3 and 1/2).
CosPiFirst(t) == ((One * One - 4 * t * t) * One) \div (One * One + t * t)

\* Math.cos(Math.PI * t): even, of period 2, odd about 1/2.
CosPi(t) ==
  LET Half(v) == IF v <= One \div 2 THEN CosPiFirst(v) ELSE -CosPiFirst(One - v)
      Period(u) == Half(IF u > One THEN 2 * One - u ELSE u)
  IN Period(Abs(t) % (2 * One))

(***************************************************************************)
(* utils/Math.ts                                                           *)
(***************************************************************************)

\* The resolution of Math.random(): it returns s/RandMod for a generator
\* state s in 0..RandMod-1.
RandMod == 4

\* The state of Math.random() after one call.
NextRand(s) == (5 * s + 3) % RandMod

RECURSIVE RandAt(_, _)
\* The generator state at the k-th call of Math.random() (k = 0 first) of a
\* run of calls that starts in state s.
RandAt(s, k) == IF k = 0 THEN s ELSE RandAt(NextRand(s), k - 1)

\* randInRangeInt over a range one wider than [min, max].
randInRangeIntWide(min, max, s) == ((s * (max - min + 2)) \div RandMod) + min

\* randInRangeInt(min, max) when Math.random() returns s/RandMod.
randInRangeInt(min, max, s) == ((s * (max - min + 1)) \div RandMod) + min

\* normalize dividing n itself by the width of the range.
normalizeUnshifted(n, min, max) == Div(n, max - min)

normalize(n, min, max) == Div(n - min, max - min)

\* euclideanDistance, of points in fixed point.
euclideanDistance(pointA, pointB) ==
  Isqrt((pointB.x - pointA.x) * (pointB.x - pointA.x)
        + (pointB.y - pointA.y) * (pointB.y - pointA.y))

\* An easing that is the identity.
easeLinear(x) == x

easeInOutSine(x) == (0 - (CosPi(x) - One)) \div 2

lerp(a, b, t) == a + Mul(b - a, t)

(***************************************************************************)
(* terrain/TerrainGenerator.ts                                             *)
(***************************************************************************)

DEFAULT_SIZE == 500
DEFAULT_NUM_ISLANDS == 4
DEFAULT_ISLAND_THRESHOLD == 30
DEFAULT_SEA_FLOOR == -1000
DEFAULT_VORONOI_FALLOFF == 1200
DEFAULT_WARP_STRENGTH == 5000
DEFAULT_WARP_OFFSET == 6000
DEFAULT_WARP_FREQUENCY == 1
DEFAULT_PEAKS_FREQUENCY == 6
DEFAULT_PEAKS_AMPLITUDE == 45
DEFAULT_TERRAIN_FREQUENCY == 3
DEFAULT_ISLANDS_WEIGHT == 3000
DEFAULT_TERRAIN_WEIGHT == 2000
DEFAULT_PEAKS_WEIGHT == 1000
DEFAULT_EDGE_FALLOFF == 15

\* Number.MAX_SAFE_INTEGER, the start of the running minimum in voronoi: the
\* largest integer of the model.
MAX_SAFE_INTEGER == 2147483647

\* What a Float32Array element keeps of a number: the nearest quarter.
Fround(v) == ((2 * v + 25) \div 50) * 25

\* this.simplex(a, b): the noise function createNoise2D() built for this
\* generator, a fixed function of its two arguments into [-1, 1]; noise
\* names which one the constructor got.
simplex(noise, a, b) == (((3 * a + 5 * b + noise) % 7) - 3) * (One \div 3)

\* The field initialisers of TerrainGenerator and the constructor's
\* assignments, before generateSeedPoints runs.  seedPointsDefined is FALSE
\* while seedPoints is undefined.
GeneratorFields(size, widthSegments, heightSegments, noise) ==
  [ noise |-> noise,
    size |-> size,
    widthSegments |-> widthSegments,
    heightSegments |-> heightSegments,
    numIslands |-> DEFAULT_NUM_ISLANDS,
    islandThreshold |-> DEFAULT_ISLAND_THRESHOLD,
    landTransition |-> [ start |-> DEFAULT_ISLAND_THRESHOLD + 10,
                         end |-> DEFAULT_ISLAND_THRESHOLD - 5 ],
    seaFloor |-> DEFAULT_SEA_FLOOR,
    voronoiFalloff |-> DEFAULT_VORONOI_FALLOFF,
    warpStrength |-> DEFAULT_WARP_STRENGTH,
    warpOffset |-> DEFAULT_WARP_OFFSET,
    warpFrequency |-> DEFAULT_WARP_FREQUENCY,
    peaksFrequency |-> DEFAULT_PEAKS_FREQUENCY,
    peaksAmplitude |-> DEFAULT_PEAKS_AMPLITUDE,
    terrainFrequency |-> DEFAULT_TERRAIN_FREQUENCY,
    islandsWeight |-> DEFAULT_ISLANDS_WEIGHT,
    terrainWeight |-> DEFAULT_TERRAIN_WEIGHT,
    peaksWeight |-> DEFAULT_PEAKS_WEIGHT,
    edgeFalloff |-> DEFAULT_EDGE_FALLOFF,
    seedPoints |-> << >>,
    seedPointsDefined |-> FALSE ]

\* generateSeedPoints(width, height) when the first Math.random() call finds
\* the generator in state s: numIslands points, x drawn before y.
generateSeedPoints(g, width, height, s) ==
  LET halfWidth == width \div 2
      halfHeight == height \div 2
  IN [ i \in 1..g.numIslands |->
         [ x |-> randInRangeInt(-halfWidth, halfWidth, RandAt(s, 2 * (i - 1))),
           y |-> randInRangeInt(-halfHeight, halfHeight,
                                RandAt(s, 2 * (i - 1) + 1)) ] ]

\* A constructor that leaves seedPoints as declared, undefined.
NewTerrainGeneratorUnseeded(size, widthSegments, heightSegments, noise, s) ==
  GeneratorFields(size, widthSegments, heightSegments, noise)

\* The constructor.
NewTerrainGenerator(size, widthSegments, heightSegments, noise, s) ==
  LET g == GeneratorFields(size, widthSegments, heightSegments, noise)
  IN [ g EXCEPT !.seedPoints =
                  generateSeedPoints(g, widthSegments, heightSegments, s),
                !.seedPointsDefined = TRUE ]

\* The loop of voronoi keeping the distance to the first seed point.
FirstDistanceFrom(points, i, p, minDistance) ==
  euclideanDistance(p, [ x |-> Num(points[1].x), y |-> Num(points[1].y) ])

RECURSIVE MinDistanceFrom(_, _, _, _)
\* The loop of voronoi over the seed points from the i-th on.
MinDistanceFrom(points, i, p, minDistance) ==
  IF i > Len(points) THEN minDistance
  ELSE MinDistanceFrom(points, i + 1, p,
         Min2(minDistance,
              euclideanDistance(p, [ x |-> Num(points[i].x),
                                     y |-> Num(points[i].y) ])))

voronoi(g, x, y) ==
  IF ~g.seedPointsDefined \/ Len(g.seedPoints) = 0 THEN 0
  ELSE LET minDistance ==
             MinDistanceFrom(g.seedPoints, 1, [ x |-> x, y |-> y ],
                             MAX_SAFE_INTEGER)
           maxDistance == Isqrt(2 * g.size * g.size * One) * 10
           normalizedDistance == Div(minDistance, maxDistance)
       IN ExpNeg(Mul(normalizedDistance, g.voronoiFalloff))

ridgedNoise(g, x, y) == One - Abs(simplex(g.noise, x, y))

calculateEdgeFalloff(g, x, y) ==
  IF g.edgeFalloff <= 0 THEN One
  ELSE LET halfWidth == Num(g.widthSegments) \div 2
           halfHeight == Num(g.heightSegments) \div 2
           distanceFromEdgeX == One - Div(Abs(x), halfWidth)
           distanceFromEdgeY == One - Div(Abs(y), halfHeight)
           Multiplier(minDistanceFromEdge) ==
             IF minDistanceFromEdge >= g.edgeFalloff THEN One
             ELSE easeInOutSine(Div(minDistanceFromEdge, g.edgeFalloff))
       IN Multiplier(Min2(distanceFromEdgeX, distanceFromEdgeY))

\* The warped coordinates generate hands to voronoi.
warpedX(g, x, y) ==
  x + Mul(simplex(g.noise, Mul(x, g.warpFrequency), Mul(y, g.warpFrequency)),
          g.warpStrength)

\* warpedY from the noise sample of warpedX, without warpOffset.
warpedYNoOffset(g, x, y) ==
  y + Mul(simplex(g.noise, Mul(x, g.warpFrequency), Mul(y, g.warpFrequency)),
          g.warpStrength)

warpedY(g, x, y) ==
  y + Mul(simplex(g.noise, Mul(x, g.warpFrequency) + g.warpOffset,
                  Mul(y, g.warpFrequency)),
          g.warpStrength)

\* generate without its early-out.
EarlyOutNever(g, islands) == FALSE

\* The early-out test of generate: the sample is open water.
EarlyOut(g, islands) == islands <= g.landTransition.end

\* landHeight of generate: the three layers by their weights.
landHeight(g, islands, terrain, peaks) ==
  Mul(islands, g.islandsWeight) + Mul(terrain, g.terrainWeight)
    + Mul(peaks, g.peaksWeight)

\* generate without its transition band.
InTransitionNever(g, islands) == FALSE

\* The second test of generate: the sample eases into the water.
InTransition(g, islands) == islands <= g.landTransition.start

\* heightWithTransition of generate.
heightWithTransition(g, islands, height) ==
  lerp(g.seaFloor, height,
       easeInOutSine(normalize(islands, g.landTransition.end,
                               g.landTransition.start)))

\* What generate returns past its early-out, from the values it has
\* computed by then.
heightOnLand(g, islands, height, edgeFalloffMultiplier) ==
  IF InTransition(g, islands)
  THEN lerp(g.seaFloor, heightWithTransition(g, islands, height),
            edgeFalloffMultiplier)
  ELSE lerp(g.seaFloor, height, edgeFalloffMultiplier)

\* generate(x, y): the height, with the values it computed on the way and
\* the later stages it evaluated before it returned.
generate(g, x, y) ==
  LET Land(wx, wy, islands, terrain, peaks, height, edgeFalloffMultiplier) ==
        [ height |-> heightOnLand(g, islands, height, edgeFalloffMultiplier),
          islands |-> islands,
          evaluated |-> {"terrain", "peaks", "edgeFalloff"},
          warpedX |-> wx, warpedY |-> wy, terrain |-> terrain,
          peaks |-> peaks, landHeight |-> height,
          edgeFalloffMultiplier |-> edgeFalloffMultiplier ]
      Layers(wx, wy, islands, terrain, peaks) ==
        Land(wx, wy, islands, terrain, peaks,
             landHeight(g, islands, terrain, peaks),
             calculateEdgeFalloff(g, x, y))
      Height(wx, wy, islands) ==
        IF EarlyOut(g, islands)
        THEN [ height |-> g.seaFloor, islands |-> islands, evaluated |-> {},
               warpedX |-> wx, warpedY |-> wy ]
        ELSE Layers(wx, wy, islands,
                    simplex(g.noise, Mul(x, g.terrainFrequency),
                            Mul(y, g.terrainFrequency)),
                    Mul(g.peaksAmplitude,
                        ridgedNoise(g, Mul(x, g.peaksFrequency),
                                    Mul(y, g.peaksFrequency))))
      Warped(wx, wy) == Height(wx, wy, voronoi(g, wx, wy))
  IN Warped(warpedX(g, x, y), warpedY(g, x, y))

\* The cells of generateHeights in the order its two loops visit them:
\* y outside, x inside; none when a side is not positive.
LoopCells(width, height) ==
  IF width <= 0 \/ height <= 0 THEN << >>
  ELSE [ k \in 1..(width * height) |->
           [ x |-> (k - 1) % width, y |-> (k - 1) \div width ] ]

\* generateHeights storing the grid column by column.
HeightIndexByColumn(x, y, width) == x * width + y

\* The index generateHeights stores the sample of cell (x, y) at.
HeightIndex(x, y, width) == y * width + x

\* One pass of the inner loop body of generateHeights: the sample it
\* computes and the index it stores it at.
SampleAt(g, width, height, cell) ==
  LET Stored(worldX, worldY, r) ==
        [ x |-> cell.x, y |-> cell.y, worldX |-> worldX, worldY |-> worldY,
          index |-> HeightIndex(cell.x, cell.y, width),
          height |-> r.height, islands |-> r.islands,
          evaluated |-> r.evaluated ]
      At(worldX, worldY) == Stored(worldX, worldY, generate(g, worldX, worldY))
  IN At(Num(cell.x) - Num(width) \div 2, Num(cell.y) - Num(height) \div 2)

\* A store into an array of doubles.
StoreFloat64(heights, index, value) ==
  IF index >= 0 /\ index < Len(heights)
  THEN [ heights EXCEPT ![index + 1] = value ]
  ELSE heights

\* heights[index] = value on a Float32Array: a store past its end does
\* nothing.
StoreFloat32(heights, index, value) ==
  IF index >= 0 /\ index < Len(heights)
  THEN [ heights EXCEPT ![index + 1] = Fround(value) ]
  ELSE heights

RECURSIVE StoreSamples(_, _, _)
StoreSamples(heights, samples, k) ==
  IF k > Len(samples) THEN heights
  ELSE StoreSamples(StoreFloat32(heights, samples[k].index, samples[k].height),
                    samples, k + 1)

\* generateHeights(width, height, heights): the samples in loop order.
generateHeights(g, width, height) ==
  LET cells == LoopCells(width, height)
  IN [ k \in 1..Len(cells) |-> SampleAt(g, width, height, cells[k]) ]

\* generateHeightMap drawing new seed points when, and only when, sameSeed
\* is set.
DrawsSeedsOnSameSeed(g, sameSeed) == sameSeed \/ ~g.seedPointsDefined

\* generateHeightMap drawing new seed points at every call.
DrawsSeedsAlways(g, sameSeed) == TRUE

\* Whether generateHeightMap(sameSeed) draws new seed points.
DrawsSeeds(g, sameSeed) == ~sameSeed \/ ~g.seedPointsDefined

\* generateHeightMap(sameSeed) when Math.random() is in state s: the
\* generator afterwards, the array returned and the samples of the sweep.
generateHeightMap(g, sameSeed, s) ==
  LET zeros == [ i \in 1..(g.widthSegments * g.heightSegments) |-> 0 ]
      Returned(g2, samples) ==
        [ generator |-> g2,
          sameSeed |-> sameSeed,
          heights |-> StoreSamples(zeros, samples, 1),
          samples |-> samples ]
      Sweep(g2) ==
        Returned(g2, generateHeights(g2, g.widthSegments, g.heightSegments))
  IN Sweep(IF DrawsSeeds(g, sameSeed)
           THEN [ g EXCEPT !.seedPoints =
                             generateSeedPoints(g, g.widthSegments,
                                                g.heightSegments, s),
                           !.seedPointsDefined = TRUE ]
           ELSE g)

(***************************************************************************)
(* terrain/Terrain.ts                                                      *)
(***************************************************************************)

\* What a Float32Array element holds after undefined is stored in it.
NaN == 0 - MAX_SAFE_INTEGER

\* heightMap[i] for the 0-based index i: undefined past the end, which a
\* vertex buffer stores as NaN.
ElementAt(heightMap, i) ==
  IF i < Len(heightMap) THEN heightMap[i + 1] ELSE NaN

\* vertices.setZ(i, v): a store into the Float32Array of positions.
SetZ(v) == IF v = NaN THEN NaN ELSE Fround(v)

\* The number of vertices of PlaneGeometry(size, size, segments, segments).
VertexCount(segments) == (segments + 1) * (segments + 1)

\* createTerrainMesh: a flat plane.  positionZ is the Z of every vertex in
\* index order, normalsOf the Z values the vertex normals were last computed
\* from.
createTerrainMesh(size, segments) ==
  [ present |-> TRUE,
    size |-> size,
    segments |-> segments,
    positionZ |-> [ i \in 1..VertexCount(segments) |-> 0 ],
    needsUpdate |-> FALSE,
    normalsOf |-> [ i \in 1..VertexCount(segments) |-> 0 ] ]

\* No Terrain: a generator used on its own.
NoTerrain ==
  [ present |-> FALSE, size |-> 0, segments |-> 0, positionZ |-> << >>,
    needsUpdate |-> FALSE, normalsOf |-> << >> ]

applyHeightMap(t, heightMap) ==
  LET Updated(z) ==
        [ t EXCEPT !.positionZ = z, !.needsUpdate = TRUE, !.normalsOf = z ]
  IN Updated([ i \in 1..Len(t.positionZ) |->
                 SetZ(ElementAt(heightMap, i - 1)) ])

\* A Terrain with its generator, and the generateHeightMap calls a handler
\* has made on it so far (the newest last).
Scene(g, t, calls) == [ generator |-> g, terrain |-> t, calls |-> calls ]

\* generateHeightMap(sameSeed) with its result dropped.
GenerateOnly(sc, sameSeed, s) ==
  LET Dropped(r) == Scene(r.generator, sc.terrain, Append(sc.calls, r))
  IN Dropped(generateHeightMap(sc.generator, sameSeed, s))

\* generateHeightMap(sameSeed) and then applyHeightMap on what it returned:
\* the body shared by generateHeights, regenerate and update.
GenerateAndApply(sc, sameSeed, s) ==
  LET Applied(r) ==
        Scene(r.generator, applyHeightMap(sc.terrain, r.heights),
              Append(sc.calls, r))
  IN Applied(generateHeightMap(sc.generator, sameSeed, s))

\* regenerate() keeping the seed points.
regenerateKeepingSeeds(sc, s) == GenerateAndApply(sc, TRUE, s)

\* Terrain.regenerate() and Terrain.update().
regenerate(sc, s) == GenerateAndApply(sc, FALSE, s)
update(sc, s) == GenerateAndApply(sc, TRUE, s)

\* A Terrain whose generator has one sample per segment.
NewTerrainPerSegment(size, resolution, noise, s, s2) ==
  GenerateAndApply(
    Scene(NewTerrainGenerator(size, resolution, resolution, noise, s),
          createTerrainMesh(size, resolution), << >>),
    FALSE, s2)

\* The Terrain constructor: the generator on a grid of segments + 1 samples
\* a side, the flat mesh, then generateHeights() (new seed points).  s and s2
\* are the states Math.random() is in at its two runs of calls.
NewTerrain(size, resolution, noise, s, s2) ==
  GenerateAndApply(
    Scene(NewTerrainGenerator(size, resolution + 1, resolution + 1, noise, s),
          createTerrainMesh(size, resolution), << >>),
    FALSE, s2)

(***************************************************************************)
(* camera/OrbitalCamera.ts, water/Water.ts                                 *)
(***************************************************************************)

\* Math.PI.
PI == 314

\* The orbit state of an OrbitalCamera built with the default configuration
\* at time 0.
NewOrbitalCamera ==
  [ enabled |-> TRUE, orbitPeriod |-> Num(60), angle |-> 0, lastAngle |-> 0,
    lastOrbitTime |-> 0 ]

\* OrbitalCamera.update(time).
cameraUpdate(cam, time) ==
  IF cam.enabled
  THEN [ cam EXCEPT !.angle =
           cam.lastAngle
           + Mul(Div(time - cam.lastOrbitTime, cam.orbitPeriod), 2 * PI) ]
  ELSE cam

\* setEnabled(enabled) that only assigns the flag.
setEnabledOnly(cam, enabled, time) == [ cam EXCEPT !.enabled = enabled ]

\* OrbitalCamera.setEnabled(enabled) at performance.now() = time.
setEnabled(cam, enabled, time) ==
  IF enabled /\ ~cam.enabled
  THEN [ cam EXCEPT !.lastOrbitTime = time, !.lastAngle = cam.angle,
                    !.enabled = enabled ]
  ELSE [ cam EXCEPT !.enabled = enabled ]

\* OrbitalCamera.setOrbitPeriod(period) at performance.now() = time: the
\* period is assigned before the elapsed time is turned into an angle.
setOrbitPeriod(cam, period, time) ==
  IF cam.enabled
  THEN [ cam EXCEPT
           !.orbitPeriod = period,
           !.lastAngle =
             cam.lastAngle
             + Mul(Div(time - cam.lastOrbitTime, period), 2 * PI),
           !.lastOrbitTime = time ]
  ELSE [ cam EXCEPT !.orbitPeriod = period ]

(***************************************************************************)
(* gui/GuiManager.ts                                                       *)
(***************************************************************************)

\* No controller is being changed; no handler is set.
None == "none"

\* The two kinds of module of the repository.
TerrainControls(id) == [ kind |-> "terrain", id |-> id ]

CameraControls(id) == [ kind |-> "camera", id |-> id ]

\* No SceneManager, no panel.
NoGuiManager ==
  [ present |-> FALSE, modules |-> {}, setups |-> << >>, folders |-> << >>,
    onFinishChange |-> None, destroyed |-> FALSE ]

\* new GuiManager(): an empty panel and an empty map.  onFinishChange is
\* the handler of the panel itself, setups the setupControls calls so far.
NewGuiManager == [ NoGuiManager EXCEPT !.present = TRUE ]

\* this.modules.has(name).
has(gm, name) == \E e \in gm.modules : e.name = name

\* TerrainControls.setupControls(gui): three folders, and the handler of
\* the panel itself becomes terrain.update().
\* CameraControls.setupControls(gui): one folder, handlers on its own
\* controllers only.
setupControls(module, gm) ==
  IF module.kind = "terrain"
  THEN [ gm EXCEPT
           !.setups = Append(gm.setups, module),
           !.folders = gm.folders \o << "Random Generation", "Warp Effect",
                                        "Terrain Features" >>,
           !.onFinishChange = "terrain.update" ]
  ELSE [ gm EXCEPT
           !.setups = Append(gm.setups, module),
           !.folders = Append(gm.folders, "Camera") ]

\* register(name, module) without the test of the name.
registerOver(gm, name, module) ==
  setupControls(module,
    [ gm EXCEPT !.modules = { e \in gm.modules : e.name # name }
                              \cup { [ name |-> name, module |-> module ] } ])

\* register(name, module).
register(gm, name, module) ==
  IF has(gm, name) THEN gm
  ELSE setupControls(module,
         [ gm EXCEPT !.modules = gm.modules
                                   \cup { [ name |-> name,
                                            module |-> module ] } ])

\* GuiManager.dispose(): the map is cleared and the panel destroyed.
guiDispose(gm) ==
  [ gm EXCEPT !.modules = {}, !.folders = << >>, !.onFinishChange = None,
              !.destroyed = TRUE ]

\* The SceneManager constructor's part: the terrain module always, the
\* camera module when VITE_DEBUG_MODE is "true".
SceneGuiManager(debug) ==
  IF debug
  THEN register(register(NewGuiManager, "terrain", TerrainControls(1)),
                "camera", CameraControls(1))
  ELSE register(NewGuiManager, "terrain", TerrainControls(1))

(***************************************************************************)
(* utils/Logger.ts                                                         *)
(***************************************************************************)

\* Keep logs for 12 seconds, milliseconds.
maxAge == 12000

\* 2 seconds of no new logs = "inactive", milliseconds.
inactivityThreshold == 2000

\* The period of the cleanup timer, milliseconds.
cleanupInterval == 500

\* Min 3 seconds between jargon, milliseconds.
jargonMinInterval == 3000

\* Date.now() when the page is loaded, milliseconds: later than maxAge after
\* the epoch.
PageLoad == 100000

\* Date.now() at performance.now() = t seconds.
DateNow(t) == PageLoad + t * 1000

\* Intl.DateTimeFormat with hour, minute and second: the second of the day.
timeStr(timestamp) == (timestamp \div 1000) % 86400

\* The logger of the module: no entry, no listener, both times 0; the
\* constructor starts the jargon timer at time 0.  closures are the
\* callbacks whose unsubscribe function was returned by subscribe.
NewLogger ==
  [ entries |-> << >>, listeners |-> << >>, lastLogTime |-> 0,
    lastJargonTime |-> 0, jargonTimer |-> 0, closures |-> {} ]

\* this.entries.map((e) => e.message).
getMessages(lg) == [ i \in 1..Len(lg.entries) |-> lg.entries[i].message ]

\* notifyListeners(): the calls it makes, in order.
notifyListeners(lg) ==
  [ i \in 1..Len(lg.listeners) |->
      [ listener |-> lg.listeners[i], position |-> i,
        messages |-> getMessages(lg) ] ]

\* What a method leaves: the logger and the calls made to the listeners.
Logged(lg, notified) == [ logger |-> lg, notified |-> notified ]

\* log(message) at Date.now() = timestamp.
LogPushed(lg, message, timestamp) ==
  [ lg EXCEPT
      !.entries = Append(lg.entries,
                         [ message |-> << timeStr(timestamp), message >>,
                           timestamp |-> timestamp ]),
      !.lastLogTime = timestamp ]

log(lg, message, timestamp) ==
  Logged(LogPushed(lg, message, timestamp),
         notifyListeners(LogPushed(lg, message, timestamp)))

\* maybeLogJargon() at Date.now() = dateNow.
maybeLogJargon(lg, dateNow) ==
  IF /\ dateNow - lg.lastLogTime > inactivityThreshold
     /\ dateNow - lg.lastJargonTime > jargonMinInterval
  THEN Logged([ log(lg, "jargon", dateNow).logger
                  EXCEPT !.lastJargonTime = dateNow ],
              log(lg, "jargon", dateNow).notified)
  ELSE Logged(lg, << >>)

\* cleanupOldestLog() without the test of inactivity.
cleanupOldestLogAlways(lg, dateNow) ==
  IF /\ Len(lg.entries) > 0
     /\ dateNow - lg.entries[1].timestamp > maxAge
  THEN Logged([ lg EXCEPT !.entries = Tail(lg.entries) ],
              notifyListeners([ lg EXCEPT !.entries = Tail(lg.entries) ]))
  ELSE Logged(lg, << >>)

\* cleanupOldestLog() at Date.now() = dateNow.
cleanupOldestLog(lg, dateNow) ==
  IF dateNow - lg.lastLogTime < inactivityThreshold
  THEN Logged(lg, << >>)
  ELSE IF /\ Len(lg.entries) > 0
          /\ dateNow - lg.entries[1].timestamp > maxAge
       THEN Logged([ lg EXCEPT !.entries = Tail(lg.entries) ],
                   notifyListeners([ lg EXCEPT !.entries = Tail(lg.entries) ]))
       ELSE Logged(lg, << >>)

\* subscribe(callback): the callback is pushed and its closure returned.
subscribe(lg, callback) ==
  [ lg EXCEPT !.listeners = Append(lg.listeners, callback),
              !.closures = lg.closures \cup { callback } ]

\* listeners.filter((l) => l !== callback).
RECURSIVE Filter(_, _)
Filter(listeners, callback) ==
  IF listeners = << >> THEN << >>
  ELSE IF Head(listeners) # callback
       THEN << Head(listeners) >> \o Filter(Tail(listeners), callback)
       ELSE Filter(Tail(listeners), callback)

\* The function returned by subscribe(callback).
unsubscribe(lg, callback) ==
  [ lg EXCEPT !.listeners = Filter(lg.listeners, callback) ]

(***************************************************************************)
(* Bounds of the model                                                     *)
(***************************************************************************)

\* The largest resolution of a Terrain; a generator's grid has up to
\* MaxResolution + 1 samples a side.
MaxResolution == 2

\* The noise functions createNoise2D() may return are numbered 0..MaxNoise.
MaxNoise == 0

\* Parameter writes between two generateHeightMap calls.
MaxWrites == 1

\* The clock runs to MaxTime seconds.
MaxTime == 1

\* The animation frames asked for.
MaxFrames == 6

\* The sides of the grid of a generator constructed on its own, in samples.
GridSides == MaxResolution..(MaxResolution + 1)

\* The states Math.random() can be in when a run of calls starts.
RandStates == 0..(RandMod - 1)

(***************************************************************************)
(* The control panels: gui/TerrainControls.ts and GUI/TerrainControls.ts   *)
(***************************************************************************)

\* The generator fields whose controllers are moved.
PanelFields == { "numIslands", "islandThreshold", "warpStrength" }

\* Values a controller can give its field, among those of its slider.
PanelValues(f) ==
  CASE f = "numIslands" -> { 2 }
    [] f = "islandThreshold" -> { 60 }
    [] f = "warpStrength" -> { 9600 }

\* The public fields a caller of a generator writes, and values it may
\* write.
PublicFields == { "numIslands", "seaFloor" }

PublicValues(f) ==
  CASE f = "numIslands" -> { 0, 2 }
    [] f = "seaFloor" -> { -1010 }

(***************************************************************************)
(* State                                                                   *)
(***************************************************************************)

VARIABLES
  generator,    \* the TerrainGenerator
  terrain,      \* the Terrain that owns it, or NoTerrain
  lastCall,     \* the latest generateHeightMap call: arguments and result
  calls,        \* sameSeed of each generateHeightMap call of the last step
  writes,       \* parameter writes since the latest generateHeightMap call
  pending,      \* the field whose controller changed and has not finished
  camera,       \* the OrbitalCamera
  uTime,        \* the water material's u_time
  animationId,  \* SceneManager.animationId, 0 for null
  now,          \* performance.now() in seconds
  lastOp,       \* the operation of the last step
  sweep,        \* the generateHeightMap call on the call stack, step by step
  probe,        \* the latest single call of a function: arguments and result
  logger,       \* the Logger
  guiManager,   \* the GuiManager and the panel it owns
  frameRequests \* the animation frames the browser has been asked for

vars ==
  << generator, terrain, lastCall, calls, writes, pending, camera, uTime,
     animationId, now, lastOp, sweep, probe, logger, guiManager,
     frameRequests >>

\* No generateHeightMap call is on the call stack, and none is left to run in
\* the current task.
NoSweep ==
  [ active |-> FALSE, todo |-> << >>, sameSeed |-> FALSE, next |-> 0,
    heights |-> << >>, samples |-> << >>, snapshot |-> << >> ]

\* No function was called on its own.
NoProbe ==
  [ op |-> "none", in |-> << >>, out |-> << >>, first |-> << >>,
    before |-> << >> ]

\* No generateHeightMap call yet.
NoCall ==
  [ made |-> FALSE, sameSeed |-> FALSE, repeats |-> FALSE,
    generator |-> << >>, heights |-> << >>, samples |-> << >> ]

\* The record of a call from what generateHeightMap returned.  repeats: it
\* was generateHeightMap(true), so was the call before it, and no parameter
\* was written between the two.
CallOf(r, repeats) ==
  [ made |-> TRUE, sameSeed |-> r.sameSeed, repeats |-> repeats,
    generator |-> r.generator, heights |-> r.heights, samples |-> r.samples ]

SameSeedFlags(cs) == [ k \in 1..Len(cs) |-> cs[k].sameSeed ]

\* The variables a handler's calls on the Terrain set, from the scene it
\* leaves.
Publish(sc) ==
  /\ generator' = sc.generator
  /\ terrain' = sc.terrain
  /\ lastCall' =
       CallOf(sc.calls[Len(sc.calls)],
              /\ sc.calls[Len(sc.calls)].sameSeed
              /\ IF Len(sc.calls) > 1
                 THEN sc.calls[Len(sc.calls) - 1].sameSeed
                 ELSE lastCall.made /\ lastCall.sameSeed /\ writes = 0)
  /\ calls' = SameSeedFlags(sc.calls)
  /\ writes' = 0

\* A scene with the constructor's Terrain (SceneManager) at time 0.
InitScene ==
  \E resolution \in 1..MaxResolution, noise \in 0..MaxNoise,
     s \in RandStates, s2 \in RandStates :
    \E sc \in { NewTerrain(DEFAULT_SIZE, resolution, noise, s, s2) } :
      /\ generator = sc.generator
      /\ terrain = sc.terrain
      /\ lastCall = CallOf(sc.calls[1], FALSE)
      /\ calls = SameSeedFlags(sc.calls)

\* A generator constructed on its own.
InitGenerator ==
  \E widthSegments \in GridSides, heightSegments \in GridSides,
     noise \in 0..MaxNoise, s \in RandStates :
    /\ generator = NewTerrainGenerator(DEFAULT_SIZE, widthSegments,
                                       heightSegments, noise, s)
    /\ terrain = NoTerrain
    /\ lastCall = NoCall
    /\ calls = << >>

\* What a new page has besides the generator, the Terrain and the panel.
InitPage ==
  /\ writes = 0
  /\ pending = None
  /\ camera = NewOrbitalCamera
  /\ uTime = 0
  /\ animationId = 0
  /\ now = 0
  /\ lastOp = "new"
  /\ sweep = NoSweep
  /\ probe = NoProbe
  /\ logger = NewLogger
  /\ frameRequests = {}

\* A new page: the panel is the one of a production build, without the
\* camera module.
InitRest ==
  /\ InitPage
  /\ guiManager = (IF terrain.present THEN SceneGuiManager(FALSE)
                   ELSE NoGuiManager)

Init ==
  /\ InitScene \/ InitGenerator
  /\ InitRest

Still == UNCHANGED << camera, uTime, animationId, now, sweep, probe,
                  logger, guiManager, frameRequests >>

(***************************************************************************)
(* A generator used on its own                                             *)
(***************************************************************************)

\* generator.f = v by a caller.
SetField(f, v) ==
  /\ ~terrain.present
  /\ writes < MaxWrites
  /\ generator' = [ generator EXCEPT ![f] = v ]
  /\ writes' = writes + 1
  /\ calls' = << >>
  /\ lastOp' = "set"
  /\ UNCHANGED << terrain, lastCall, pending >>
  /\ Still

\* generator.generateHeightMap(sameSeed) by a caller.  A call that draws no
\* seed points does not call Math.random(): one state stands for all.
GenerateHeightMap(sameSeed, s) ==
  /\ ~terrain.present
  /\ DrawsSeeds(generator, sameSeed) \/ s = 0
  /\ \E r \in { generateHeightMap(generator, sameSeed, s) } :
       /\ generator' = r.generator
       /\ lastCall' = CallOf(r, /\ sameSeed
                                 /\ lastCall.made
                                 /\ lastCall.sameSeed
                                 /\ writes = 0)
       /\ calls' = << sameSeed >>
  /\ writes' = 0
  /\ lastOp' = "generateHeightMap"
  /\ UNCHANGED << terrain, pending >>
  /\ Still

(***************************************************************************)
(* The control panel of a scene                                            *)
(***************************************************************************)

\* A controller writes its field: the slider moves or a number is typed.
ControllerChange(f, v) ==
  /\ terrain.present
  /\ pending \in { None, f }
  /\ writes < MaxWrites
  /\ generator[f] # v
  /\ generator' = [ generator EXCEPT ![f] = v ]
  /\ pending' = f
  /\ writes' = writes + 1
  /\ calls' = << >>
  /\ lastOp' = "change"
  /\ UNCHANGED << terrain, lastCall >>
  /\ Still

\* The change is finished: the panel's onFinishChange handler runs
\* terrain.update(), and the numIslands controller's own handler runs
\* terrain.regenerate(); the GUI library decides which runs first.  One
\* choice of updateFirst and s stands for all when only update() runs.
ControllerFinishChange(updateFirst, s) ==
  /\ terrain.present
  /\ pending # None
  /\ \E sc \in { Scene(generator, terrain, << >>) } :
       IF pending = "numIslands"
       THEN IF updateFirst THEN Publish(regenerate(update(sc, s), s))
            ELSE Publish(update(regenerate(sc, s), s))
       ELSE updateFirst /\ s = 0 /\ Publish(update(sc, s))
  /\ pending' = None
  /\ lastOp' = "finishChange"
  /\ Still

\* The "Regenerate Terrain" button.
RegenerateButton(s) ==
  /\ terrain.present
  /\ pending = None
  /\ Publish(regenerate(Scene(generator, terrain, << >>), s))
  /\ lastOp' = "regenerate"
  /\ UNCHANGED pending
  /\ Still

(***************************************************************************)
(* three/SceneManager.ts                                                   *)
(***************************************************************************)

\* animate with terrain.update() among its calls.
AnimateAtUpdating(ran) ==
  /\ animationId' = animationId + 1
  /\ frameRequests' = (frameRequests \ { ran }) \cup { animationId' }
  /\ camera' = cameraUpdate(camera, Num(now'))
  /\ uTime' = Num(now')
  /\ \E sc \in { Scene(generator, terrain, << >>) } : Publish(update(sc, 0))
  /\ UNCHANGED << pending, sweep, logger, guiManager >>

\* The body of animate at the time now', called by start() (ran = 0) or by
\* the browser for the request ran: the next frame is requested and its
\* number kept, the camera and the water take the time, the scene is
\* rendered.  The browser numbers the requests from 1, so the new number is
\* one more than the latest, which animationId holds.
AnimateAt(ran) ==
  /\ animationId' = animationId + 1
  /\ frameRequests' = (frameRequests \ { ran }) \cup { animationId' }
  /\ camera' = cameraUpdate(camera, Num(now'))
  /\ uTime' = Num(now')
  /\ calls' = << >>
  /\ UNCHANGED << generator, terrain, lastCall, writes, pending, sweep,
                  logger, guiManager >>

\* start().
Start ==
  /\ terrain.present
  /\ animationId = 0
  /\ now' = now
  /\ AnimateAt(0)
  /\ lastOp' = "start"
  /\ UNCHANGED probe

\* The requests the browser may hold.
FrameIds == 1..MaxFrames

\* The browser runs the animation frame it was asked for as request id, a
\* second later.
AnimationFrame(id) ==
  /\ terrain.present
  /\ id \in frameRequests
  /\ now < MaxTime
  /\ now' = now + 1
  /\ AnimateAt(id)
  /\ lastOp' = "animate"
  /\ UNCHANGED probe

Next ==
  \/ \E f \in PublicFields : \E v \in PublicValues(f) : SetField(f, v)
  \/ \E sameSeed \in BOOLEAN, s \in RandStates : GenerateHeightMap(sameSeed, s)
  \/ \E f \in PanelFields : \E v \in PanelValues(f) : ControllerChange(f, v)
  \/ \E updateFirst \in BOOLEAN, s \in RandStates :
       ControllerFinishChange(updateFirst, s)
  \/ \E s \in RandStates : RegenerateButton(s)
  \/ Start
  \/ \E id \in FrameIds : AnimationFrame(id)

Spec == Init /\ [][Next]_vars

(***************************************************************************)
(* The event loop: generateHeightMap step by step                          *)
(*                                                                         *)
(* The handlers of Spec run in one step each.  Here a handler only queues  *)
(* the generateHeightMap calls its task makes (sweep.todo), and each call  *)
(* runs as the source runs it: the seed points, then one cell of the two   *)
(* loops of generateHeights per step, then the return to the Terrain,      *)
(* which applies the array.  The browser starts a task (a panel event, a   *)
(* timer of the Logger, an animation frame) when the call stack is empty.  *)
(***************************************************************************)

\* A task that starts whatever is on the call stack.
CallStackAny == TRUE

\* The browser takes the next task: nothing of the current one is running
\* or left to run.  generateHeightMap, generateHeights and generate are
\* synchronous and call nothing that yields.
CallStackEmpty == ~sweep.active /\ sweep.todo = << >>

InitSweep == InitScene /\ InitRest

\* A controller writes its field.
TaskControllerChange(f, v) == CallStackEmpty /\ ControllerChange(f, v)

\* The task of a handler that makes the generateHeightMap calls todo.
Task(todo, op) ==
  /\ sweep' = [ NoSweep EXCEPT !.todo = todo ]
  /\ lastOp' = op
  /\ calls' = << >>
  /\ UNCHANGED << generator, terrain, lastCall, writes, camera, uTime,
                  animationId, now, probe,
                  logger, guiManager, frameRequests >>

\* A controller finishes its change: update(), and regenerate() for
\* numIslands, in the order the GUI library runs the two handlers.
TaskFinishChange(updateFirst) ==
  /\ CallStackEmpty
  /\ pending # None
  /\ IF pending = "numIslands"
     THEN Task(IF updateFirst THEN << TRUE, FALSE >> ELSE << FALSE, TRUE >>,
               "finishChange")
     ELSE updateFirst /\ Task(<< TRUE >>, "finishChange")
  /\ pending' = None

\* The "Regenerate Terrain" button: regenerate().
TaskRegenerateButton ==
  /\ CallStackEmpty
  /\ pending = None
  /\ Task(<< FALSE >>, "regenerate")
  /\ UNCHANGED pending

\* A timer of the Logger fires (cleanupOldestLog, maybeLogJargon): it
\* touches the log entries only.
TaskTimer ==
  /\ CallStackEmpty
  /\ lastOp' = "timer"
  /\ calls' = << >>
  /\ UNCHANGED << generator, terrain, lastCall, writes, pending, camera,
                  uTime, animationId, now, sweep, probe,
                  logger, guiManager, frameRequests >>

TaskStart == CallStackEmpty /\ Start

TaskAnimationFrame(id) == CallStackEmpty /\ AnimationFrame(id)

\* generateHeightMap(sameSeed) is entered: the seed points if it draws them,
\* and the array of zeros.
SweepBegin(s) ==
  /\ ~sweep.active
  /\ sweep.todo # << >>
  /\ DrawsSeeds(generator, Head(sweep.todo)) \/ s = 0
  /\ \E g2 \in { IF DrawsSeeds(generator, Head(sweep.todo))
                 THEN [ generator EXCEPT
                          !.seedPoints =
                            generateSeedPoints(generator,
                                               generator.widthSegments,
                                               generator.heightSegments, s),
                          !.seedPointsDefined = TRUE ]
                 ELSE generator } :
       /\ generator' = g2
       /\ sweep' = [ active |-> TRUE,
                     todo |-> Tail(sweep.todo),
                     sameSeed |-> Head(sweep.todo),
                     next |-> 0,
                     heights |-> [ i \in 1..(g2.widthSegments
                                             * g2.heightSegments) |-> 0 ],
                     samples |-> << >>,
                     snapshot |-> g2 ]
  /\ lastOp' = "generateHeightMap"
  /\ calls' = << >>
  /\ UNCHANGED << terrain, lastCall, writes, pending, camera, uTime,
                  animationId, now, probe,
                  logger, guiManager, frameRequests >>

\* One pass of the inner loop of generateHeights, on the generator as it is
\* now.
SweepCell ==
  /\ sweep.active
  /\ sweep.next < generator.widthSegments * generator.heightSegments
  /\ \E sample \in { SampleAt(generator, generator.widthSegments,
                             generator.heightSegments,
                             LoopCells(generator.widthSegments,
                                       generator.heightSegments)
                               [sweep.next + 1]) } :
       sweep' = [ sweep EXCEPT
                    !.next = sweep.next + 1,
                    !.heights = StoreFloat32(sweep.heights, sample.index,
                                             sample.height),
                    !.samples = Append(sweep.samples, sample) ]
  /\ lastOp' = "generate"
  /\ calls' = << >>
  /\ UNCHANGED << generator, terrain, lastCall, writes, pending, camera,
                  uTime, animationId, now, probe,
                  logger, guiManager, frameRequests >>

\* generateHeightMap returns the array and the Terrain applies it.
SweepReturn ==
  /\ sweep.active
  /\ sweep.next >= generator.widthSegments * generator.heightSegments
  /\ terrain' = applyHeightMap(terrain, sweep.heights)
  /\ lastCall' = [ made |-> TRUE, sameSeed |-> sweep.sameSeed,
                   repeats |-> FALSE, generator |-> generator,
                   heights |-> sweep.heights, samples |-> sweep.samples ]
  /\ sweep' = [ NoSweep EXCEPT !.todo = sweep.todo ]
  /\ writes' = 0
  /\ calls' = << sweep.sameSeed >>
  /\ lastOp' = "applyHeightMap"
  /\ UNCHANGED << generator, pending, camera, uTime, animationId, now,
                  probe,
                  logger, guiManager, frameRequests >>

NextSweep ==
  \/ \E f \in PanelFields : \E v \in PanelValues(f) :
       TaskControllerChange(f, v)
  \/ \E updateFirst \in BOOLEAN : TaskFinishChange(updateFirst)
  \/ TaskRegenerateButton
  \/ TaskTimer
  \/ TaskStart
  \/ \E id \in FrameIds : TaskAnimationFrame(id)
  \/ \E s \in RandStates : SweepBegin(s)
  \/ SweepCell
  \/ SweepReturn

SpecSweep == InitSweep /\ [][NextSweep]_vars

(***************************************************************************)
(* The methods of a generator called one at a time                         *)
(*                                                                         *)
(* A generator on its own: a caller writes some of its public fields, then *)
(* one of generate, voronoi and calculateEdgeFalloff is applied to a point *)
(* and probe keeps the arguments and what the method returned.             *)
(***************************************************************************)

\* The coordinates of the points the methods are applied to.
MaxCoordinate == 2

ProbePoints ==
  { [ x |-> Num(i), y |-> Num(j) ] :
      i \in (-MaxCoordinate)..MaxCoordinate,
      j \in (-MaxCoordinate)..MaxCoordinate }

ProbeFields == { "voronoiFalloff", "edgeFalloff", "warpStrength", "seaFloor" }

ProbeValues(f) ==
  CASE f = "voronoiFalloff" -> { 0, 20 * One, 40 * One }
    [] f = "edgeFalloff" -> { -5, 0, One \div 2 }
    [] f = "warpStrength" -> { 0 }
    [] f = "seaFloor" -> { -1010 }

\* The island values, land heights and edge multipliers generate is
\* continued from: the two ends of the transition band of a new generator
\* (which are its ends for good), inside the band and above it.
ProbeIslands ==
  { DEFAULT_ISLAND_THRESHOLD - 5, DEFAULT_ISLAND_THRESHOLD,
    DEFAULT_ISLAND_THRESHOLD + 10, DEFAULT_ISLAND_THRESHOLD + 11, One }

ProbeLandHeights == { -5 * One, 0, 30 * One }

ProbeMultipliers == { 0, One \div 2, One }

\* The sizes of the planes: the default, and one of the order of the probe
\* points' coordinates.
ProbeSizes == { DEFAULT_SIZE, MaxCoordinate }

\* A generator constructed on its own, for a square grid.
InitProbe ==
  /\ \E size \in ProbeSizes, segments \in GridSides, noise \in 0..MaxNoise,
        s \in RandStates :
       generator = NewTerrainGenerator(size, segments, segments, noise, s)
  /\ terrain = NoTerrain
  /\ lastCall = NoCall
  /\ calls = << >>
  /\ InitRest

\* A caller writes one field before it calls a method.
ProbeSetField(f, v) ==
  /\ probe = NoProbe
  /\ writes = 0
  /\ generator[f] # v
  /\ SetField(f, v)

\* What a call leaves besides the probe.
Probed(op) ==
  /\ lastOp' = op
  /\ UNCHANGED << terrain, lastCall, calls, writes, pending, camera, uTime,
                  animationId, now, sweep,
                  logger, guiManager, frameRequests >>

\* generate(x, y) a second time, by a generate that draws new seed points.
CallGenerateAgainReseeding ==
  /\ probe.op = "generate"
  /\ \E s \in RandStates :
       /\ generator' = [ generator EXCEPT
                           !.seedPoints =
                             generateSeedPoints(generator,
                                                generator.widthSegments,
                                                generator.heightSegments, s) ]
       /\ probe' = [ probe EXCEPT
                       !.op = "generateAgain",
                       !.first = probe.out,
                       !.out = generate(generator', probe.in.x, probe.in.y) ]
  /\ Probed("generateAgain")

\* generate(x, y): it assigns no field.
CallGenerate(x, y) ==
  /\ probe = NoProbe
  /\ probe' = [ op |-> "generate", in |-> [ x |-> x, y |-> y ],
                out |-> generate(generator, x, y), first |-> << >>,
                before |-> generator ]
  /\ generator' = generator
  /\ Probed("generate")

\* generate(x, y) a second time with the arguments of the first.
CallGenerateAgain ==
  /\ probe.op = "generate"
  /\ probe' = [ probe EXCEPT
                  !.op = "generateAgain",
                  !.first = probe.out,
                  !.out = generate(generator, probe.in.x, probe.in.y) ]
  /\ generator' = generator
  /\ Probed("generateAgain")

\* voronoi(x, y).
CallVoronoi(x, y) ==
  /\ probe = NoProbe
  /\ probe' = [ NoProbe EXCEPT !.op = "voronoi",
                               !.in = [ x |-> x, y |-> y ],
                               !.out = voronoi(generator, x, y) ]
  /\ generator' = generator
  /\ Probed("voronoi")

\* calculateEdgeFalloff(x, y).
CallCalculateEdgeFalloff(x, y) ==
  /\ probe = NoProbe
  /\ probe' = [ NoProbe EXCEPT !.op = "calculateEdgeFalloff",
                               !.in = [ x |-> x, y |-> y ],
                               !.out = calculateEdgeFalloff(generator, x, y) ]
  /\ generator' = generator
  /\ Probed("calculateEdgeFalloff")

\* generate from its test of the transition band on, with the island value,
\* the land height and the edge multiplier it has computed.
ContinueGenerate(islands, height, edgeFalloffMultiplier) ==
  /\ probe = NoProbe
  /\ probe' = [ NoProbe EXCEPT
                  !.op = "heightOnLand",
                  !.in = [ islands |-> islands, landHeight |-> height,
                           edgeFalloffMultiplier |-> edgeFalloffMultiplier ],
                  !.out = heightOnLand(generator, islands, height,
                                       edgeFalloffMultiplier) ]
  /\ generator' = generator
  /\ Probed("heightOnLand")

NextGenerate ==
  \/ \E f \in ProbeFields : \E v \in ProbeValues(f) : ProbeSetField(f, v)
  \/ \E p \in ProbePoints : CallGenerate(p.x, p.y)
  \/ CallGenerateAgain
  \/ \E p \in ProbePoints : CallVoronoi(p.x, p.y)
  \/ \E p \in ProbePoints : CallCalculateEdgeFalloff(p.x, p.y)
  \/ \E islands \in ProbeIslands, height \in ProbeLandHeights,
        edgeFalloffMultiplier \in ProbeMultipliers :
       ContinueGenerate(islands, height, edgeFalloffMultiplier)

SpecGenerate == InitProbe /\ [][NextGenerate]_vars

(***************************************************************************)
(* new TerrainGenerator(size, widthSegments, heightSegments)               *)
(*                                                                         *)
(* A caller constructs a generator for a grid of its choice, sides that    *)
(* are not positive included, and calls generateHeightMap on it.           *)
(***************************************************************************)

\* No generator yet.
NoGenerator == [ constructed |-> FALSE ]

\* The sides a caller passes.
ConstructSides == (0 - MaxResolution)..(MaxResolution + 1)

InitConstruct ==
  /\ generator = NoGenerator
  /\ terrain = NoTerrain
  /\ lastCall = NoCall
  /\ calls = << >>
  /\ writes = 0
  /\ pending = None
  /\ camera = NewOrbitalCamera
  /\ uTime = 0
  /\ animationId = 0
  /\ now = 0
  /\ lastOp = "load"
  /\ sweep = NoSweep
  /\ probe = NoProbe
  /\ logger = NewLogger
  /\ guiManager = NoGuiManager
  /\ frameRequests = {}

\* What the two calls leave alone.
Constructing ==
  UNCHANGED << terrain, lastCall, calls, writes, pending, camera, uTime,
               animationId, now, sweep,
                  logger, guiManager, frameRequests >>

\* The constructor: it assigns its arguments and the seed points, and has
\* no statement that throws.
Construct(widthSegments, heightSegments, noise, s) ==
  /\ generator = NoGenerator
  /\ generator' = NewTerrainGenerator(DEFAULT_SIZE, widthSegments,
                                      heightSegments, noise, s)
  /\ probe' = [ NoProbe EXCEPT
                  !.op = "new",
                  !.in = [ widthSegments |-> widthSegments,
                           heightSegments |-> heightSegments ],
                  !.out = "constructed" ]
  /\ lastOp' = "new"
  /\ Constructing

\* generateHeightMap(sameSeed) on the new generator: the seed points if it
\* draws them, then new Float32Array(widthSegments * heightSegments), which
\* throws a RangeError for a negative length, then the sweep.
ConstructedGenerateHeightMap(sameSeed, s) ==
  /\ generator # NoGenerator
  /\ probe.op = "new"
  /\ DrawsSeeds(generator, sameSeed) \/ s = 0
  /\ IF generator.widthSegments * generator.heightSegments < 0
     THEN /\ generator' =
               IF DrawsSeeds(generator, sameSeed)
               THEN [ generator EXCEPT
                        !.seedPoints =
                          generateSeedPoints(generator,
                                             generator.widthSegments,
                                             generator.heightSegments, s) ]
               ELSE generator
          /\ probe' = [ probe EXCEPT !.op = "generateHeightMap",
                                     !.out = "RangeError" ]
     ELSE \E r \in { generateHeightMap(generator, sameSeed, s) } :
            /\ generator' = r.generator
            /\ probe' = [ probe EXCEPT !.op = "generateHeightMap",
                                       !.out = r.heights ]
  /\ lastOp' = "generateHeightMap"
  /\ Constructing

NextConstruct ==
  \/ \E widthSegments \in ConstructSides, heightSegments \in ConstructSides,
        noise \in 0..MaxNoise, s \in RandStates :
       Construct(widthSegments, heightSegments, noise, s)
  \/ \E sameSeed \in BOOLEAN, s \in RandStates :
       ConstructedGenerateHeightMap(sameSeed, s)

SpecConstruct == InitConstruct /\ [][NextConstruct]_vars

(***************************************************************************)
(* shaders/water/water.fs.glsl                                             *)
(*                                                                         *)
(* The fragment shader of the water, for one fragment at a time: Water's   *)
(* update(time) sets u_time, and the fragment at v_uv is shaded with the   *)
(* u_time of the frame.  Vectors are records of two numbers.               *)
(***************************************************************************)

\* vec2 + vec2, vec2 + float and float * vec2.
VecAdd(a, b) == [ x |-> a.x + b.x, y |-> a.y + b.y ]

VecShift(a, d) == [ x |-> a.x + d, y |-> a.y + d ]

VecScale(f, a) == [ x |-> Mul(f, a.x), y |-> Mul(f, a.y) ]

\* snoise(v): a fixed function of the point into [-1, 1].
snoise(v) == (((3 * v.x + 5 * v.y) % 7) - 3) * (One \div 3)

numOctaves == 5

RECURSIVE fbmFromFlat(_, _, _, _, _)
\* The loop of fbm with every octave at the amplitude of the first.
fbmFromFlat(p, i, f, a, t) ==
  IF i >= numOctaves THEN t
  ELSE fbmFromFlat(p, i + 1, Mul(f, 2 * One), a,
                   t + Mul(a, snoise(VecScale(f, p))))

RECURSIVE fbmFrom(_, _, _, _, _)
\* The loop of fbm from octave i on: frequency f, amplitude a, total t.
fbmFrom(p, i, f, a, t) ==
  IF i >= numOctaves THEN t
  ELSE fbmFrom(p, i + 1, Mul(f, 2 * One), Mul(a, One \div 2),
               t + Mul(a, snoise(VecScale(f, p))))

fbm(p) == fbmFrom(p, 0, One, One, 0)

waveScale == 300

warpOffset == 3

timeScalarSlow == 1

timeScalarFast == 5

\* r.x of main.
warpSlow(p, q, time) ==
  fbm(VecShift(VecAdd(p, VecScale(One, q)), Mul(timeScalarSlow, time)))

\* r.y of main computed at the rate of r.x.
warpFastAtSlowRate(p, q, time) ==
  fbm(VecShift(VecAdd(p, VecScale(One, q)), Mul(timeScalarSlow, time)))

\* r.y of main.
warpFast(p, q, time) ==
  fbm(VecShift(VecAdd(p, VecScale(One, q)), Mul(timeScalarFast, time)))

\* main() for the fragment at v_uv when u_time is time, up to the remapped
\* f that the colours are mixed by.
waterMain(uv, time) ==
  LET Out(p, q, r, f) ==
        [ p |-> p, q |-> q, r |-> r, f |-> f,
          remapped |-> Mul(f, One \div 2) + One \div 2 ]
      Detail(p, q, r) ==
        Out(p, q, r, fbm(VecShift(VecAdd(p, r), Mul(timeScalarFast, time))))
      Warp(p, q) ==
        Detail(p, q, [ x |-> warpSlow(p, q, time),
                       y |-> warpFast(p, q, time) ])
      Base(p) ==
        Warp(p, [ x |-> fbm(VecShift(p, warpOffset)),
                  y |-> fbm(VecShift(VecShift(p, One), warpOffset)) ])
  IN Base(VecScale(waveScale, uv))

\* The fragments: v_uv in quarters of the plane.
UvSteps == 4

UvPoints ==
  { [ x |-> (i * One) \div UvSteps, y |-> (j * One) \div UvSteps ] :
      i \in 0..UvSteps, j \in 0..UvSteps }

\* The last time of the animation, in seconds.
MaxWaterTime == 3

\* The page with the water's material: u_time is 0.
InitWater == InitConstruct

\* Water.update(time) of a later frame.
WaterUpdate(time) ==
  /\ Num(time) > uTime
  /\ uTime' = Num(time)
  /\ lastOp' = "update"
  /\ UNCHANGED << generator, terrain, lastCall, calls, writes, pending,
                  camera, animationId, now, sweep, probe,
                  logger, guiManager, frameRequests >>

\* The fragment at v_uv is shaded: for the first time, or again in a later
\* frame, and then probe keeps what it was in the earlier one.
Fragment(uv) ==
  /\ \/ probe = NoProbe
     \/ probe.op = "fragment" /\ probe.in.uv = uv /\ probe.in.time < uTime
  /\ probe' = [ op |-> "fragment",
                in |-> [ uv |-> uv, time |-> uTime ],
                out |-> waterMain(uv, uTime),
                first |-> probe.out,
                before |-> probe.in ]
  /\ lastOp' = "fragment"
  /\ UNCHANGED << generator, terrain, lastCall, calls, writes, pending,
                  camera, uTime, animationId, now, sweep,
                  logger, guiManager, frameRequests >>

NextWater ==
  \/ \E time \in 1..MaxWaterTime : WaterUpdate(time)
  \/ \E uv \in UvPoints : Fragment(uv)

SpecWater == InitWater /\ [][NextWater]_vars

(***************************************************************************)
(* The Logger, its two timers and its subscribers.  log() is called by    *)
(* every component; here it is called by anyone at any time.  The clock   *)
(* advances in seconds, and a timer fires no earlier than it was set for. *)
(* probe keeps the latest call: the logger before it and the calls made   *)
(* to the listeners.                                                      *)
(***************************************************************************)

\* The clock stops at this second or just after it.
MaxLogTime == 13

\* The seconds between two readings of the clock.
ClockStep == 2

\* The entries kept at most.
MaxEntries == 2

\* The subscriptions at most.
MaxListeners == 2

\* The callbacks that subscribe: App's setLogs and another one.
Callbacks == { "setLogs", "other" }

InitLogger == InitConstruct

\* What the logger's steps leave alone.
Logging ==
  UNCHANGED << generator, terrain, lastCall, calls, writes, pending, camera,
               uTime, animationId, sweep, guiManager, frameRequests >>

\* What a call leaves: the logger, and in probe the call.
LoggerCall(op, in, result) ==
  /\ logger' = result.logger
  /\ probe' = [ op |-> op, in |-> in, out |-> result.notified,
                first |-> << >>, before |-> logger ]
  /\ lastOp' = op
  /\ UNCHANGED now
  /\ Logging

\* The clock advances.
ClockTick ==
  /\ now < MaxLogTime
  /\ now' = now + ClockStep
  /\ lastOp' = "tick"
  /\ UNCHANGED << logger, probe >>
  /\ Logging

\* logger.log(message) by a component.
LoggerLog(message) ==
  /\ Len(logger.entries) < MaxEntries
  /\ LoggerCall("log", [ message |-> message, dateNow |-> DateNow(now) ],
                log(logger, message, DateNow(now)))

\* The cleanup interval fires, cleanupInterval or more after the logger was
\* built.
CleanupTimer ==
  /\ DateNow(now) - PageLoad >= cleanupInterval
  /\ LoggerCall("cleanupOldestLog", [ dateNow |-> DateNow(now) ],
                cleanupOldestLog(logger, DateNow(now)))

\* The jargon timeout fires, jargonMinInterval or more after it was set, and
\* sets the next one.
JargonTimer ==
  /\ Len(logger.entries) < MaxEntries
  /\ DateNow(now) - DateNow(logger.jargonTimer) >= jargonMinInterval
  /\ LoggerCall("maybeLogJargon", [ dateNow |-> DateNow(now) ],
                Logged([ maybeLogJargon(logger, DateNow(now)).logger
                           EXCEPT !.jargonTimer = now ],
                       maybeLogJargon(logger, DateNow(now)).notified))

\* logger.subscribe(callback).
Subscribe(callback) ==
  /\ Len(logger.listeners) < MaxListeners
  /\ LoggerCall("subscribe", [ callback |-> callback ],
                Logged(subscribe(logger, callback), << >>))

\* A function returned by subscribe(callback) is called.
Unsubscribe(callback) ==
  /\ callback \in logger.closures
  /\ LoggerCall("unsubscribe", [ callback |-> callback ],
                Logged(unsubscribe(logger, callback), << >>))

NextLogger ==
  \/ ClockTick
  \/ LoggerLog("message")
  \/ CleanupTimer
  \/ JargonTimer
  \/ \E callback \in Callbacks : Subscribe(callback)
  \/ \E callback \in Callbacks : Unsubscribe(callback)

SpecLogger == InitLogger /\ [][NextLogger]_vars

(***************************************************************************)
(* The OrbitalCamera on its own: update(time) by the animation frame, and *)
(* the two setters of the camera controls, at any second.  After a        *)
(* resume probe keeps the angle and the time of it, until the orbit is    *)
(* paused or its period set.                                              *)
(***************************************************************************)

\* The last second of the camera's clock.
MaxCameraTime == 3

\* CameraControls.MIN_ORBIT_PERIOD and MAX_ORBIT_PERIOD, seconds.
MIN_ORBIT_PERIOD == 5

MAX_ORBIT_PERIOD == 240

\* The periods set: the ends of the slider and the default.
CameraPeriods ==
  { Num(MIN_ORBIT_PERIOD), NewOrbitalCamera.orbitPeriod,
    Num(MAX_ORBIT_PERIOD) }

InitCamera == InitConstruct

\* What the camera's steps leave alone.
Orbiting ==
  UNCHANGED << generator, terrain, lastCall, calls, writes, pending, uTime,
               animationId, sweep, logger, guiManager, frameRequests >>

\* A second passes.
CameraTick ==
  /\ now < MaxCameraTime
  /\ now' = now + 1
  /\ lastOp' = "tick"
  /\ UNCHANGED << camera, probe >>
  /\ Orbiting

\* orbitalCamera.update(time) at the time now.
CameraUpdate ==
  /\ camera' = cameraUpdate(camera, Num(now))
  /\ lastOp' = "update"
  /\ UNCHANGED << now, probe >>
  /\ Orbiting

\* setEnabled(enabled) at the time now.
SetEnabled(enabled) ==
  /\ camera' = setEnabled(camera, enabled, Num(now))
  /\ probe' = IF enabled /\ ~camera.enabled
              THEN [ NoProbe EXCEPT
                       !.op = "resumed",
                       !.in = [ angle |-> camera.angle, time |-> Num(now) ] ]
              ELSE IF enabled THEN probe ELSE NoProbe
  /\ lastOp' = "setEnabled"
  /\ UNCHANGED now
  /\ Orbiting

\* setOrbitPeriod(period) at the time now.
SetOrbitPeriod(period) ==
  /\ camera' = setOrbitPeriod(camera, period, Num(now))
  /\ probe' = NoProbe
  /\ lastOp' = "setOrbitPeriod"
  /\ UNCHANGED now
  /\ Orbiting

NextCamera ==
  \/ CameraTick
  \/ CameraUpdate
  \/ \E enabled \in BOOLEAN : SetEnabled(enabled)
  \/ \E period \in CameraPeriods : SetOrbitPeriod(period)

SpecCamera == InitCamera /\ [][NextCamera]_vars

(***************************************************************************)
(* The panel: the GuiManager of a scene, built with or without the camera *)
(* module, further register calls, dispose, and the controllers of both   *)
(* modules.  lil-gui calls the onFinishChange handler of a panel for      *)
(* every controller in it and in its folders, besides the controller's    *)
(* own.  probe keeps the latest register call.                            *)
(***************************************************************************)

\* The setupControls calls at most.
MaxSetups == 3

\* The names and the modules of the register calls.
ModuleNames == { "terrain", "camera" }

Modules == { TerrainControls(2), CameraControls(2) }

\* The controllers of the camera module that set the orbit, and the values
\* set with them.
CameraFields == { "enabled", "period" }

CameraValues(f) == IF f = "enabled" THEN BOOLEAN ELSE CameraPeriods

\* The scene of a build with or without VITE_DEBUG_MODE, its mesh of one
\* segment a side.
InitGui ==
  /\ InitScene
  /\ terrain.segments = 1
  /\ InitPage
  /\ \E debug \in BOOLEAN : guiManager = SceneGuiManager(debug)

\* The panel has not been destroyed.
PanelOpen == guiManager.present /\ ~guiManager.destroyed

\* A camera module has set up its controllers in the panel.
CameraFolderOpen ==
  /\ PanelOpen
  /\ \E i \in 1..Len(guiManager.setups) : guiManager.setups[i].kind = "camera"

\* guiManager.register(name, module).
Register(name, module) ==
  /\ guiManager.present
  /\ pending = None
  /\ Len(guiManager.setups) < MaxSetups
  /\ guiManager' = register(guiManager, name, module)
  /\ probe' = [ NoProbe EXCEPT
                  !.op = "register",
                  !.in = [ name |-> name, module |-> module ],
                  !.before = guiManager ]
  /\ calls' = << >>
  /\ lastOp' = "register"
  /\ UNCHANGED << generator, terrain, lastCall, writes, pending, camera,
                  uTime, animationId, now, sweep, logger, frameRequests >>

\* guiManager.dispose().
GuiDispose ==
  /\ PanelOpen
  /\ guiManager' = guiDispose(guiManager)
  /\ pending' = None
  /\ calls' = << >>
  /\ lastOp' = "dispose"
  /\ UNCHANGED << generator, terrain, lastCall, writes, camera, uTime,
                  animationId, now, sweep, probe, logger, frameRequests >>

\* A controller of the terrain module changes, and finishes changing.
PanelChange(f, v) == PanelOpen /\ ControllerChange(f, v)

PanelFinishChange(updateFirst, s) ==
  /\ PanelOpen
  /\ pending \in PanelFields
  /\ ControllerFinishChange(updateFirst, s)

\* A controller of the camera module changes: its onChange handler calls the
\* camera's setter.
CameraControllerChange(f, v) ==
  /\ CameraFolderOpen
  /\ pending \in { None, f }
  /\ camera' = IF f = "enabled" THEN setEnabled(camera, v, Num(now))
               ELSE setOrbitPeriod(camera, v, Num(now))
  /\ camera' # camera
  /\ pending' = f
  /\ calls' = << >>
  /\ lastOp' = "cameraChange"
  /\ UNCHANGED << generator, terrain, lastCall, writes, uTime, animationId,
                  now, sweep, probe, logger, guiManager, frameRequests >>

\* The change is finished: the controller has no handler for it, and the
\* panel's handler, set by the terrain module, runs terrain.update().
CameraControllerFinishChange ==
  /\ CameraFolderOpen
  /\ pending \in CameraFields
  /\ IF guiManager.onFinishChange = "terrain.update"
     THEN \E sc \in { Scene(generator, terrain, << >>) } :
            Publish(update(sc, 0))
     ELSE /\ calls' = << >>
          /\ UNCHANGED << generator, terrain, lastCall, writes >>
  /\ pending' = None
  /\ lastOp' = "cameraFinishChange"
  /\ Still

NextGui ==
  \/ \E name \in ModuleNames, module \in Modules : Register(name, module)
  \/ GuiDispose
  \/ \E f \in PanelFields : \E v \in PanelValues(f) : PanelChange(f, v)
  \/ \E updateFirst \in BOOLEAN, s \in RandStates :
       PanelFinishChange(updateFirst, s)
  \/ \E f \in CameraFields : \E v \in CameraValues(f) :
       CameraControllerChange(f, v)
  \/ CameraControllerFinishChange

SpecGui == InitGui /\ [][NextGui]_vars

(***************************************************************************)
(* The life of a SceneManager: start(), the animation frames the browser  *)
(* runs, dispose().  The browser runs a frame it was asked for and has    *)
(* not been told to cancel.  probe counts the start() calls, and the      *)
(* frames run after dispose().                                            *)
(***************************************************************************)

\* The last second of the scene's clock.
MaxSceneTime == 3

\* The start() calls at most.
MaxStarts == 2

InitLifecycle == InitScene /\ InitRest

\* dispose() has been called: it disposes of the panel.
Disposed == guiManager.destroyed

\* The start() calls so far, and the frames run after dispose().
StartsSoFar == IF probe = NoProbe THEN 0 ELSE probe.in.starts

FramesAfterDispose == IF probe = NoProbe THEN 0 ELSE probe.in.after

Counted(starts, after) ==
  [ NoProbe EXCEPT !.op = "counted",
                   !.in = [ starts |-> starts, after |-> after ] ]

\* A dispose() that leaves the request alone.
cancelNothing(requests, id) == requests

\* cancelAnimationFrame(id), by the browser.
cancelAnimationFrame(requests, id) == requests \ { id }

\* start() on a manager not disposed of.
SceneStart ==
  /\ terrain.present
  /\ ~Disposed
  /\ StartsSoFar < MaxStarts
  /\ animationId < MaxFrames
  /\ now' = now
  /\ AnimateAt(0)
  /\ probe' = Counted(StartsSoFar + 1, FramesAfterDispose)
  /\ lastOp' = "start"

\* The browser runs the frame it was asked for as request id, a second
\* later.
SceneFrame(id) ==
  /\ terrain.present
  /\ id \in frameRequests
  /\ now < MaxSceneTime
  /\ animationId < MaxFrames
  /\ now' = now + 1
  /\ AnimateAt(id)
  /\ probe' = Counted(StartsSoFar,
                      FramesAfterDispose + (IF Disposed THEN 1 ELSE 0))
  /\ lastOp' = "animate"

\* dispose(): the request in animationId is cancelled, the scene objects and
\* the panel are disposed of.
SceneDispose ==
  /\ terrain.present
  /\ ~Disposed
  /\ frameRequests' = IF animationId # 0
                      THEN cancelAnimationFrame(frameRequests, animationId)
                      ELSE frameRequests
  /\ guiManager' = guiDispose(guiManager)
  /\ calls' = << >>
  /\ lastOp' = "dispose"
  /\ UNCHANGED << generator, terrain, lastCall, writes, pending, camera,
                  uTime, animationId, now, sweep, probe, logger >>

NextLifecycle ==
  \/ SceneStart
  \/ \E id \in FrameIds : SceneFrame(id)
  \/ SceneDispose

SpecLifecycle == InitLifecycle /\ [][NextLifecycle]_vars

(***************************************************************************)
(* Properties                                                              *)
(***************************************************************************)

\* C1: on one generator, a generateHeightMap(true) call that follows a
\* generateHeightMap(true) call with no parameter written in between returns
\* an array equal at every index to the one the earlier call returned.
C1_SameSeedStable ==
  [][ (Len(calls') = 1 /\ lastCall'.repeats)
        => /\ Len(lastCall'.heights) = Len(lastCall.heights)
           /\ \A i \in 1..Len(lastCall.heights) :
                lastCall'.heights[i] = lastCall.heights[i] ]_vars

\* Two generateHeightMap(true) calls in a row, nothing written in between,
\* on a generator whose heightmap is not flat.
C1_Witness ==
  /\ lastCall.made
  /\ lastCall.repeats
  /\ \E i \in 1..Len(lastCall.heights) :
       lastCall.heights[i] # lastCall.heights[1]

\* C2: the seed points of a generator change only in a step that calls
\* generateHeightMap(false), or generateHeightMap on a generator that has no
\* seed points yet; parameter writes and generateHeightMap(true) leave them
\* as they are.
C2_SeedsChangeOnlyOnRequest ==
  [][ generator'.seedPoints # generator.seedPoints
        => \/ \E k \in 1..Len(calls') : ~calls'[k]
           \/ ~generator.seedPointsDefined ]_vars

\* A controller wrote a parameter and the panel ran update(), which called
\* generateHeightMap(true) only.
C2_Witness ==
  /\ lastOp = "finishChange"
  /\ calls = << TRUE >>
  /\ generator.islandThreshold # DEFAULT_ISLAND_THRESHOLD
  /\ generator.seedPoints = lastCall.generator.seedPoints
  /\ Len(generator.seedPoints) > 0

\* C3: in every reachable state of a generator, also after the control panel
\* wrote islandThreshold, landTransition.start = islandThreshold + 0.1 and
\* landTransition.end = islandThreshold - 0.05, hence end < start.
C3_LandTransitionFollowsThreshold ==
  /\ generator.landTransition.start = generator.islandThreshold + 10
  /\ generator.landTransition.end = generator.islandThreshold - 5
  /\ generator.landTransition.end < generator.landTransition.start

\* C4: every sample of a sweep whose island value is at most
\* landTransition.end gets exactly seaFloor from generate, and generate
\* returns it before it evaluates the terrain noise, the ridged peaks or the
\* edge falloff.
C4_WaterFloorClamp ==
  lastCall.made =>
    \A k \in 1..Len(lastCall.samples) :
      lastCall.samples[k].islands <= lastCall.generator.landTransition.end
        => /\ lastCall.samples[k].height = lastCall.generator.seaFloor
           /\ lastCall.samples[k].evaluated = {}

\* A sweep with seed points that has a sample in open water, with a positive
\* island value, and a sample on land.
C4_Witness ==
  /\ lastCall.made
  /\ Len(lastCall.generator.seedPoints) > 0
  /\ \E k \in 1..Len(lastCall.samples) :
       /\ lastCall.samples[k].islands > 0
       /\ lastCall.samples[k].islands <= lastCall.generator.landTransition.end
       /\ lastCall.samples[k].height = lastCall.generator.seaFloor
  /\ \E k \in 1..Len(lastCall.samples) :
       lastCall.samples[k].islands > lastCall.generator.landTransition.end

\* Inputs voronoi is probed at, besides the samples of a sweep.
ProbeInputs == { 0 - Num(250), 0 - 1, 0, 33, Num(250) }

\* The seed points, island values and generate results of a numIslands = 0
\* generator: no seed point, voronoi 0 everywhere, generate returns seaFloor.
NoIslands(call) ==
  /\ (~call.sameSeed /\ call.generator.numIslands = 0
        => call.generator.seedPoints = << >>)
  /\ call.generator.seedPoints = << >>
       => /\ \A x \in ProbeInputs : \A y \in ProbeInputs :
               voronoi(call.generator, x, y) = 0
          /\ \A k \in 1..Len(call.samples) :
               /\ call.samples[k].islands = 0
               /\ call.samples[k].height = call.generator.seaFloor

\* C5 as stated: with numIslands = 0 when the seed points are drawn, the seed
\* set is empty, voronoi returns 0 for every input and every sample of the
\* returned heightmap equals seaFloor.
C5_NoIslandsAllSeaFloor ==
  lastCall.made =>
    /\ NoIslands(lastCall)
    /\ lastCall.generator.seedPoints = << >>
         => \A i \in 1..Len(lastCall.heights) :
              lastCall.heights[i] = lastCall.generator.seaFloor

\* C5, amended: with numIslands = 0 when the seed points are drawn, the seed
\* set is empty, voronoi returns 0 for every input, generate returns seaFloor
\* for every sample, and every sample of the returned Float32Array is
\* seaFloor rounded to 32-bit float precision.
C5_NoIslandsAllSeaFloorRounded ==
  lastCall.made =>
    /\ NoIslands(lastCall)
    /\ lastCall.generator.seedPoints = << >>
         => /\ Len(lastCall.heights) > 0
            /\ \A i \in 1..Len(lastCall.heights) :
                 lastCall.heights[i] = Fround(lastCall.generator.seaFloor)

\* generateHeightMap(false) with numIslands = 0 and a seaFloor that is not a
\* 32-bit float.
C5_Witness ==
  /\ lastCall.made
  /\ ~lastCall.sameSeed
  /\ lastCall.generator.numIslands = 0
  /\ lastCall.generator.seedPoints = << >>
  /\ Fround(lastCall.generator.seaFloor) # lastCall.generator.seaFloor
  /\ Len(lastCall.heights) > 0

\* The shape of the array of a call: W*H samples, every index written
\* exactly once.
HeightMapShape(call) ==
  /\ Len(call.heights)
       = call.generator.widthSegments * call.generator.heightSegments
  /\ Len(call.samples) = Len(call.heights)
  /\ \A i \in 0..(Len(call.heights) - 1) :
       Cardinality({ k \in 1..Len(call.samples) : call.samples[k].index = i })
         = 1

\* generate(x - W/2, y - H/2) of the generator of a call.
GenerateAtCell(call, x, y) ==
  generate(call.generator,
           Num(x) - Num(call.generator.widthSegments) \div 2,
           Num(y) - Num(call.generator.heightSegments) \div 2).height

\* C6 as stated: generateHeightMap on a W x H grid returns exactly W*H
\* samples, the entry at index y*W + x is generate(x - W/2, y - H/2), and
\* every index is written exactly once.
C6_HeightMapShape ==
  lastCall.made =>
    /\ HeightMapShape(lastCall)
    /\ \A x \in 0..(lastCall.generator.widthSegments - 1) :
         \A y \in 0..(lastCall.generator.heightSegments - 1) :
           lastCall.heights[y * lastCall.generator.widthSegments + x + 1]
             = GenerateAtCell(lastCall, x, y)

\* C6, amended: generateHeightMap on a W x H grid returns exactly W*H
\* samples, the entry at index y*W + x is generate(x - W/2, y - H/2) rounded
\* to 32-bit float precision, and every index is written exactly once.
C6_HeightMapShapeRounded ==
  lastCall.made =>
    /\ HeightMapShape(lastCall)
    /\ \A x \in 0..(lastCall.generator.widthSegments - 1) :
         \A y \in 0..(lastCall.generator.heightSegments - 1) :
           lastCall.heights[y * lastCall.generator.widthSegments + x + 1]
             = Fround(GenerateAtCell(lastCall, x, y))

\* A sweep over a grid with W # H whose heightmap is not flat and has a
\* sample generate computed that a 32-bit float does not hold.
C6_Witness ==
  /\ lastCall.made
  /\ lastCall.generator.widthSegments # lastCall.generator.heightSegments
  /\ \E k \in 1..Len(lastCall.samples) :
       Fround(lastCall.samples[k].height) # lastCall.samples[k].height
  /\ \E i \in 1..Len(lastCall.heights) :
       lastCall.heights[i] # lastCall.heights[1]

\* The seed points of generator g: numIslands of them, each within half the
\* grid of the origin.
SeedPointsInGrid(g) ==
  /\ Len(g.seedPoints) = g.numIslands
  /\ \A i \in 1..Len(g.seedPoints) :
       /\ 0 - (g.widthSegments \div 2) <= g.seedPoints[i].x
       /\ g.seedPoints[i].x <= g.widthSegments \div 2
       /\ 0 - (g.heightSegments \div 2) <= g.seedPoints[i].y
       /\ g.seedPoints[i].y <= g.heightSegments \div 2

\* C7: after a generateHeightMap call that drew seed points, and after
\* construction, the seed set has exactly numIslands points (numIslands as it
\* was at that call), each with integer coordinates -floor(W/2) <= x <=
\* floor(W/2) and -floor(H/2) <= y <= floor(H/2).
C7_SeedPointsInGrid ==
  /\ (lastCall.made /\ ~lastCall.sameSeed) => SeedPointsInGrid(lastCall.generator)
  /\ lastOp = "new" => SeedPointsInGrid(generator)

\* generateHeightMap(false) after numIslands was written, with seed points
\* on both ends of the x range.
C7_Witness ==
  /\ lastCall.made
  /\ ~lastCall.sameSeed
  /\ lastCall.generator.numIslands = 2
  /\ generator.seedPoints = lastCall.generator.seedPoints
  /\ \E i \in 1..2 :
       generator.seedPoints[i].x = generator.widthSegments \div 2
  /\ \E i \in 1..2 :
       generator.seedPoints[i].x = 0 - (generator.widthSegments \div 2)

\* C8: Terrain.regenerate() calls generateHeightMap(false) and Terrain.update()
\* calls generateHeightMap(true), each then applies what that call returned,
\* so when a control-panel action is over the mesh elevations equal the
\* heightmap of the last generateHeightMap call it made.
C8_GenerateThenApply ==
  terrain.present =>
    /\ lastCall.made
    /\ terrain.positionZ = lastCall.heights
    /\ generator = lastCall.generator \/ writes > 0
    /\ lastOp = "regenerate" => calls = << FALSE >>
    /\ lastOp = "finishChange" =>
         calls \in { << TRUE >>, << TRUE, FALSE >>, << FALSE, TRUE >> }

\* The numIslands controller finished a change: regenerate() and update()
\* both ran, and the mesh, which is not flat, has the heightmap of the
\* second.
C8_Witness ==
  /\ terrain.present
  /\ lastOp = "finishChange"
  /\ calls = << FALSE, TRUE >>
  /\ terrain.positionZ = lastCall.heights
  /\ \E i \in 1..Len(terrain.positionZ) : terrain.positionZ[i] # 0

\* C9: generateHeightMap runs once when the Terrain is constructed and after
\* that only in a step of the control panel (a finished change or the
\* regenerate button); a step of the animation loop calls it never and
\* leaves the generator, the seed points and the mesh as they are.
C9_NoGenerationPerFrame ==
  /\ [](terrain.present /\ lastOp = "new" => calls = << FALSE >>)
  /\ [][ terrain.present =>
           /\ calls' # << >> => lastOp' \in { "finishChange", "regenerate" }
           /\ lastOp' \in { "start", "animate" } =>
                /\ calls' = << >>
                /\ generator' = generator
                /\ terrain' = terrain
                /\ lastCall' = lastCall ]_vars

\* The second frame of the animation loop of a scene: the camera has moved
\* and the water has the time of the frame.
C9_Witness ==
  /\ terrain.present
  /\ lastOp = "animate"
  /\ animationId = 2
  /\ uTime = Num(now)
  /\ now > 0
  /\ camera.angle > 0
  /\ calls = << >>

\* C10: applyHeightMap sets the elevation of every vertex i to heightMap[i]
\* and then recomputes the normals; the mesh has (resolution + 1)^2 vertices,
\* as many as the heightmap has samples (W*H), so no vertex gets an undefined
\* value and no sample is left over.
C10_ApplyHeightMap ==
  terrain.present =>
    /\ Len(terrain.positionZ) = (terrain.segments + 1) * (terrain.segments + 1)
    /\ Len(terrain.positionZ)
         = generator.widthSegments * generator.heightSegments
    /\ Len(lastCall.heights) = Len(terrain.positionZ)
    /\ \A i \in 1..Len(terrain.positionZ) :
         /\ terrain.positionZ[i] = lastCall.heights[i]
         /\ terrain.positionZ[i] # NaN
    /\ terrain.needsUpdate
    /\ terrain.normalsOf = terrain.positionZ

\* The regenerate button was pressed on a Terrain of resolution 2: the nine
\* vertices have the nine samples, not all the same.
C10_Witness ==
  /\ terrain.present
  /\ terrain.segments = 2
  /\ lastOp = "regenerate"
  /\ Len(terrain.positionZ) = 9
  /\ Len(lastCall.heights) = 9
  /\ terrain.normalsOf = lastCall.heights
  /\ \E i \in 1..9 : lastCall.heights[i] # lastCall.heights[1]

\* C11: the seed points and the parameters are not changed while a
\* generateHeightMap call is running: whatever panel events, timers and
\* animation frames come and in whatever order, from its first cell to its
\* return the generator is the one the call started on, and the array it
\* returns is the sweep of that one generator.
C11_SweepReadsOneGenerator ==
  /\ sweep.active => generator = sweep.snapshot
  /\ lastOp = "applyHeightMap" =>
       /\ lastCall.heights
            = StoreSamples([ i \in 1..Len(lastCall.heights) |-> 0 ],
                           generateHeights(lastCall.generator,
                                           lastCall.generator.widthSegments,
                                           lastCall.generator.heightSegments),
                           1)
       /\ terrain.positionZ = lastCall.heights

\* An update() that ran to its end after a controller wrote warpStrength,
\* with the animation loop running and a heightmap that is not flat.
C11_Witness ==
  /\ lastOp = "applyHeightMap"
  /\ calls = << TRUE >>
  /\ generator.warpStrength # DEFAULT_WARP_STRENGTH
  /\ animationId > 1
  /\ \E i \in 1..Len(lastCall.heights) :
       lastCall.heights[i] # lastCall.heights[1]

\* C18: from the end of the constructor on, seedPoints is a defined array
\* in every state, so generateHeightMap(true) never finds it undefined and
\* never takes the branch that draws the seed points for that reason.
C18_SeedPointsDefined ==
  /\ generator.seedPointsDefined
  /\ ~DrawsSeeds(generator, TRUE)
  /\ lastCall.made => lastCall.generator.seedPointsDefined

\* A generateHeightMap(true) call was made, and it kept the seed points it
\* found.
C18_Witness ==
  /\ lastCall.made
  /\ lastCall.sameSeed
  /\ lastOp \in { "generateHeightMap", "finishChange" }
  /\ generator.seedPointsDefined
  /\ Len(generator.seedPoints) = generator.numIslands
  /\ generator.numIslands > 0

C13_TransitionContinuous ==
  probe.op = "heightOnLand" =>
    /\ probe.in.islands = generator.landTransition.end =>
         /\ InTransition(generator, probe.in.islands)
         /\ EarlyOut(generator, probe.in.islands)
         /\ probe.out = generator.seaFloor
    /\ probe.in.islands = generator.landTransition.start =>
         /\ InTransition(generator, probe.in.islands)
         /\ ~InTransition(generator, probe.in.islands + 1)
         /\ probe.out = lerp(generator.seaFloor, probe.in.landHeight,
                             probe.in.edgeFalloffMultiplier)

\* The transition branch at the upper end of the band, on a land height
\* away from the sea floor and a multiplier that is not 0.
C13_Witness ==
  /\ probe.op = "heightOnLand"
  /\ probe.in.islands = generator.landTransition.start
  /\ probe.in.landHeight > 0
  /\ probe.in.edgeFalloffMultiplier = One \div 2
  /\ probe.out # generator.seaFloor
  /\ probe.out # probe.in.landHeight

\* The smaller of the two distances from the edge of the plane, as a
\* fraction of the half side: 1 at the centre, 0 on the edge, negative
\* outside the plane.
MinDistanceFromEdge(g, x, y) ==
  Min2(One - Div(Abs(x), Num(g.widthSegments) \div 2),
       One - Div(Abs(y), Num(g.heightSegments) \div 2))

\* C14: calculateEdgeFalloff returns a value in [0, 1] for every point,
\* inside the plane or outside it, and every edgeFalloff; it returns exactly
\* 1 when edgeFalloff <= 0 and when the smaller distance from the edge is at
\* least edgeFalloff.
C14_EdgeFalloffBounded ==
  probe.op = "calculateEdgeFalloff" =>
    /\ probe.out >= 0
    /\ probe.out <= One
    /\ generator.edgeFalloff <= 0 => probe.out = One
    /\ MinDistanceFromEdge(generator, probe.in.x, probe.in.y)
         >= generator.edgeFalloff => probe.out = One

\* A point outside the plane, with a falloff band, whose multiplier is
\* strictly between 0 and 1.
C14_Witness ==
  /\ probe.op = "calculateEdgeFalloff"
  /\ generator.edgeFalloff > 0
  /\ MinDistanceFromEdge(generator, probe.in.x, probe.in.y) < 0
  /\ probe.out > 0
  /\ probe.out < One

\* C15: a sample that is not open water gets its height by two lerps toward
\* seaFloor.  In the band, landTransition.end < islands <=
\* landTransition.start, generate returns
\* lerp(seaFloor, lerp(seaFloor, landHeight, easeInOutSine(t)), edge) with
\* t = (islands - end) / (start - end); above the band it returns
\* lerp(seaFloor, landHeight, edge); edge is calculateEdgeFalloff(x, y) and
\* landHeight the weighted sum of the three layers in both cases.
C15_TwoStageBlend ==
  probe.op = "generate" /\ probe.out.islands > generator.landTransition.end =>
    /\ probe.out.landHeight
         = Mul(probe.out.islands, generator.islandsWeight)
             + Mul(probe.out.terrain, generator.terrainWeight)
             + Mul(probe.out.peaks, generator.peaksWeight)
    /\ probe.out.edgeFalloffMultiplier
         = calculateEdgeFalloff(generator, probe.in.x, probe.in.y)
    /\ probe.out.islands <= generator.landTransition.start =>
         probe.out.height
           = lerp(generator.seaFloor,
                  lerp(generator.seaFloor, probe.out.landHeight,
                       easeInOutSine(
                         Div(probe.out.islands - generator.landTransition.end,
                             generator.landTransition.start
                               - generator.landTransition.end))),
                  probe.out.edgeFalloffMultiplier)
    /\ probe.out.islands > generator.landTransition.start =>
         probe.out.height
           = lerp(generator.seaFloor, probe.out.landHeight,
                  probe.out.edgeFalloffMultiplier)

\* A sample inside the band and inside the edge falloff zone: both lerps
\* move the height, and neither all the way.
C15_Witness ==
  /\ probe.op = "generate"
  /\ probe.out.islands > generator.landTransition.end
  /\ probe.out.islands < generator.landTransition.start
  /\ probe.out.edgeFalloffMultiplier > 0
  /\ probe.out.edgeFalloffMultiplier < One
  /\ probe.out.height # generator.seaFloor
  /\ probe.out.height # probe.out.landHeight
  /\ probe.out.height
       # lerp(generator.seaFloor, probe.out.landHeight,
              probe.out.edgeFalloffMultiplier)

\* C16: only the island field is sampled at warped coordinates.  generate
\* hands voronoi the point (x + noise2(x*f, y*f)*s,
\* y + noise2(x*f + warpOffset, y*f)*s), f = warpFrequency and
\* s = warpStrength; the terrain noise and the ridged peaks are sampled at
\* the original (x, y) scaled by terrainFrequency and peaksFrequency, and
\* the edge falloff is that of the original (x, y).
C16_OnlyIslandsWarped ==
  probe.op = "generate" =>
    /\ probe.out.warpedX
         = probe.in.x
             + Mul(simplex(generator.noise,
                           Mul(probe.in.x, generator.warpFrequency),
                           Mul(probe.in.y, generator.warpFrequency)),
                   generator.warpStrength)
    /\ probe.out.warpedY
         = probe.in.y
             + Mul(simplex(generator.noise,
                           Mul(probe.in.x, generator.warpFrequency)
                             + generator.warpOffset,
                           Mul(probe.in.y, generator.warpFrequency)),
                   generator.warpStrength)
    /\ probe.out.islands
         = voronoi(generator, probe.out.warpedX, probe.out.warpedY)
    /\ probe.out.evaluated # {} =>
         /\ probe.out.terrain
              = simplex(generator.noise,
                        Mul(probe.in.x, generator.terrainFrequency),
                        Mul(probe.in.y, generator.terrainFrequency))
         /\ probe.out.peaks
              = Mul(generator.peaksAmplitude,
                    One - Abs(simplex(generator.noise,
                                      Mul(probe.in.x,
                                          generator.peaksFrequency),
                                      Mul(probe.in.y,
                                          generator.peaksFrequency))))
         /\ probe.out.edgeFalloffMultiplier
              = calculateEdgeFalloff(generator, probe.in.x, probe.in.y)

\* A sample on land whose warped point is another point, with another
\* island value, another terrain noise and another edge falloff than the
\* original point.
C16_Witness ==
  /\ probe.op = "generate"
  /\ probe.out.evaluated # {}
  /\ probe.out.warpedX # probe.in.x
  /\ probe.out.warpedY # probe.in.y
  /\ probe.out.warpedX - probe.in.x # probe.out.warpedY - probe.in.y
  /\ probe.out.islands # voronoi(generator, probe.in.x, probe.in.y)
  /\ probe.out.terrain
       # simplex(generator.noise,
                 Mul(probe.out.warpedX, generator.terrainFrequency),
                 Mul(probe.out.warpedY, generator.terrainFrequency))
  /\ probe.out.edgeFalloffMultiplier
       # calculateEdgeFalloff(generator, probe.out.warpedX,
                              probe.out.warpedY)

\* The distances from p to the seed points, and the least of them.
SeedDistances(g, p) ==
  { euclideanDistance(p, [ x |-> Num(g.seedPoints[i].x),
                           y |-> Num(g.seedPoints[i].y) ]) :
      i \in 1..Len(g.seedPoints) }

MinSeedDistance(g, p) ==
  CHOOSE d \in SeedDistances(g, p) : \A e \in SeedDistances(g, p) : d <= e

\* What voronoi makes of a least distance: normalized by sqrt(2 * size^2),
\* times voronoiFalloff, negated, exponentiated.
FalloffOf(g, minDistance) ==
  ExpNeg(Mul(Div(minDistance, Isqrt(2 * g.size * g.size * One) * 10),
             g.voronoiFalloff))

C19_ConstructionRejectsInvalid ==
  probe.op = "new"
    /\ (probe.in.widthSegments <= 0 \/ probe.in.heightSegments <= 0)
    => /\ probe.out = "rejected"
       /\ generator = NoGenerator

\* C20: the water shader warps in three stages.  With p = v_uv * waveScale:
\* q = (fbm(p + offset), fbm(p + (1,1) + offset)) is the same at every
\* time; r = (fbm(p + q + t*slowRate), fbm(p + q + t*fastRate)), the two
\* rates being different; f = fbm(p + r + t*fastRate), and the colours are
\* mixed by f * 0.5 + 0.5.  Each stage reads p, t and the stages before it
\* only.
C20_WaterThreeStageWarp ==
  probe.op = "fragment" =>
    /\ probe.out.p = [ x |-> Mul(waveScale, probe.in.uv.x),
                       y |-> Mul(waveScale, probe.in.uv.y) ]
    /\ probe.out.q
         = [ x |-> fbm([ x |-> probe.out.p.x + warpOffset,
                         y |-> probe.out.p.y + warpOffset ]),
             y |-> fbm([ x |-> probe.out.p.x + One + warpOffset,
                         y |-> probe.out.p.y + One + warpOffset ]) ]
    /\ probe.first # << >> => probe.out.q = probe.first.q
    /\ timeScalarSlow # timeScalarFast
    /\ probe.out.r
         = [ x |-> fbm([ x |-> probe.out.p.x + probe.out.q.x
                                 + Mul(probe.in.time, timeScalarSlow),
                         y |-> probe.out.p.y + probe.out.q.y
                                 + Mul(probe.in.time, timeScalarSlow) ]),
             y |-> fbm([ x |-> probe.out.p.x + probe.out.q.x
                                 + Mul(probe.in.time, timeScalarFast),
                         y |-> probe.out.p.y + probe.out.q.y
                                 + Mul(probe.in.time, timeScalarFast) ]) ]
    /\ probe.out.f
         = fbm([ x |-> probe.out.p.x + probe.out.r.x
                         + Mul(probe.in.time, timeScalarFast),
                 y |-> probe.out.p.y + probe.out.r.y
                         + Mul(probe.in.time, timeScalarFast) ])
    /\ probe.out.remapped = probe.out.f \div 2 + One \div 2

\* A fragment shaded in two frames: q is not zero, r and f are not what
\* they were in the earlier frame, and the two components of r differ from
\* what the other's rate would give.
C20_Witness ==
  /\ probe.op = "fragment"
  /\ probe.first # << >>
  /\ probe.in.time > probe.before.time
  /\ probe.out.q.x # 0
  /\ probe.out.q.y # probe.out.q.x
  /\ probe.out.r # probe.first.r
  /\ probe.out.f # probe.first.f
  /\ probe.out.r.y # warpSlow(probe.out.p, probe.out.q, probe.in.time)
  /\ probe.out.r.x # warpFast(probe.out.p, probe.out.q, probe.in.time)

\* Octave i of fbm at p: amplitude 0.5^i, frequency 2^i.
Octave(i, p) ==
  Mul(One \div (2 ^ i),
      snoise([ x |-> Mul((2 ^ i) * One, p.x), y |-> Mul((2 ^ i) * One, p.y) ]))

OctaveSum(p) ==
  Octave(0, p) + Octave(1, p) + Octave(2, p) + Octave(3, p) + Octave(4, p)

\* The points main applies fbm to for the fragment in probe.
FbmArguments ==
  { VecShift(probe.out.p, warpOffset),
    VecShift(probe.out.p, One + warpOffset),
    VecShift(VecAdd(probe.out.p, probe.out.q),
             Mul(timeScalarSlow, probe.in.time)),
    VecShift(VecAdd(probe.out.p, probe.out.q),
             Mul(timeScalarFast, probe.in.time)),
    VecShift(VecAdd(probe.out.p, probe.out.r),
             Mul(timeScalarFast, probe.in.time)) }

\* C21: fbm(p) is the sum of exactly five octaves, i = 0..4, of
\* 0.5^i * noise(2^i * p): frequency 1 and amplitude 1 first, then the
\* frequency doubled and the amplitude halved from one octave to the next.
C21_FbmFiveOctaves ==
  probe.op = "fragment" =>
    /\ numOctaves = 5
    /\ \A a \in FbmArguments : fbm(a) = OctaveSum(a)
    /\ probe.out.q.x = OctaveSum(VecShift(probe.out.p, warpOffset))
    /\ probe.out.f
         = OctaveSum(VecShift(VecAdd(probe.out.p, probe.out.r),
                              Mul(timeScalarFast, probe.in.time)))

\* A fragment for whose f all five octaves are not zero.
C21_Witness ==
  /\ probe.op = "fragment"
  /\ probe.in.time > 0
  /\ \A i \in 0..4 :
       Octave(i, VecShift(VecAdd(probe.out.p, probe.out.r),
                          Mul(timeScalarFast, probe.in.time))) # 0
  /\ probe.out.f
       # Octave(0, VecShift(VecAdd(probe.out.p, probe.out.r),
                            Mul(timeScalarFast, probe.in.time)))

\* The samples of a call on the outer boundary of the swept grid.
BoundarySamples(call) ==
  { k \in 1..Len(call.samples) :
      \/ call.samples[k].x = 0
      \/ call.samples[k].x = call.generator.widthSegments - 1
      \/ call.samples[k].y = 0
      \/ call.samples[k].y = call.generator.heightSegments - 1 }

\* C22 as stated: with 0 < edgeFalloff <= 1, calculateEdgeFalloff is 1 at
\* world (0, 0) and 0 for every sample on the outer boundary of the swept
\* grid, so every boundary sample generate computes is seaFloor.
C22_EdgeFalloffZeroOnBoundary ==
  lastCall.made /\ lastCall.generator.edgeFalloff > 0
    /\ lastCall.generator.edgeFalloff <= One
    => /\ calculateEdgeFalloff(lastCall.generator, 0, 0) = One
       /\ \A k \in BoundarySamples(lastCall) :
            /\ calculateEdgeFalloff(lastCall.generator,
                                    lastCall.samples[k].worldX,
                                    lastCall.samples[k].worldY) = 0
            /\ lastCall.samples[k].height = lastCall.generator.seaFloor

\* The cleanup at the time dateNow finds the logger lg inactive and its
\* oldest entry too old.
CleanupDue(lg, dateNow) ==
  /\ dateNow - lg.lastLogTime >= inactivityThreshold
  /\ lg.entries # << >>
  /\ dateNow - lg.entries[1].timestamp > maxAge

\* Every listener of lg, in order, was called once with the messages of lg.
NotifiedAll(lg, notified) ==
  /\ Len(notified) = Len(lg.listeners)
  /\ \A i \in 1..Len(notified) :
       /\ notified[i].listener = lg.listeners[i]
       /\ notified[i].messages = getMessages(lg)

\* C23: a cleanup tick removes the oldest entry, and only that one, and
\* notifies the listeners, exactly when the time since the last log() is at
\* least inactivityThreshold and the oldest entry is older than maxAge; in
\* every other case it leaves the entries alone and notifies nobody; the
\* entries are always in non-decreasing order of their timestamps.
C23_CleanupRemovesOnlyOldest ==
  /\ \A i, j \in 1..Len(logger.entries) :
       i < j => logger.entries[i].timestamp <= logger.entries[j].timestamp
  /\ probe.op = "cleanupOldestLog" =>
       /\ Len(logger.entries) >= Len(probe.before.entries) - 1
       /\ IF CleanupDue(probe.before, probe.in.dateNow)
          THEN /\ logger.entries = Tail(probe.before.entries)
               /\ NotifiedAll(logger, probe.out)
          ELSE /\ logger.entries = probe.before.entries
               /\ probe.out = << >>

\* A tick removed the older of two entries and told a listener.
C23_Witness ==
  /\ probe.op = "cleanupOldestLog"
  /\ Len(probe.before.entries) = 2
  /\ Len(logger.entries) = 1
  /\ logger.entries[1] = probe.before.entries[2]
  /\ probe.out # << >>

\* The subscriptions of the callback among the listeners.
RECURSIVE Subscriptions(_, _)
Subscriptions(listeners, callback) ==
  IF listeners = << >> THEN 0
  ELSE Subscriptions(Tail(listeners), callback)
       + (IF Head(listeners) = callback THEN 1 ELSE 0)

\* C30: the function returned by subscribe(cb) removes one subscription at
\* most, one of cb; every other subscription, of another callback or of the
\* same one, stays registered, and every registered subscription is called
\* with the full list of messages by each log() and each cleanup removal.
C30_SubscriptionsIndependent ==
  /\ probe.op = "unsubscribe" =>
       \A callback \in Callbacks :
         Subscriptions(logger.listeners, callback)
           >= Subscriptions(probe.before.listeners, callback)
              - (IF callback = probe.in.callback THEN 1 ELSE 0)
  /\ probe.op = "log" => NotifiedAll(logger, probe.out)
  /\ probe.op = "cleanupOldestLog"
     /\ logger.entries # probe.before.entries =>
       NotifiedAll(logger, probe.out)

\* C24: while auto-orbit is disabled update(time) leaves the angle as it
\* is; a resume keeps the angle held while disabled, so that update at the
\* instant of the resume yields that angle, and every later update yields
\* it plus 2 pi (time since the resume) / orbitPeriod.
C24_PauseAndResume ==
  /\ [](probe.op = "resumed" /\ lastOp = "update" =>
          camera.angle
            = probe.in.angle
              + Mul(Div(Num(now) - probe.in.time, camera.orbitPeriod),
                    2 * PI))
  /\ [][/\ lastOp' = "update" /\ ~camera.enabled =>
             camera'.angle = camera.angle
        /\ lastOp' = "setEnabled" /\ ~camera.enabled /\ camera'.enabled =>
             cameraUpdate(camera', Num(now)).angle = camera.angle]_vars

\* The orbit was paused away from angle 0, resumed later, and an update
\* after the resume has moved the camera on from the angle held.
C24_Witness ==
  /\ probe.op = "resumed"
  /\ lastOp = "update"
  /\ probe.in.angle > 0
  /\ probe.in.time > 0
  /\ camera.angle > probe.in.angle

\* C28: setOrbitPeriod while auto-orbit is enabled does not move the
\* camera: update() at the instant of the call computes the same angle
\* before and after it.
C28_PeriodChangeKeepsAngle ==
  [][lastOp' = "setOrbitPeriod" /\ camera.enabled =>
       cameraUpdate(camera', Num(now)).angle
         = cameraUpdate(camera, Num(now)).angle]_vars

\* C26: when the handlers of a finished numIslands change have run, in
\* either order, there are exactly numIslands seed points and the mesh has
\* the elevations computed from them; the handlers of a finished change of
\* another parameter leave the seed points as they were.
C26_SeedsFollowNumIslands ==
  [][lastOp' = "finishChange" =>
       IF pending = "numIslands"
       THEN \E g \in { generator' } :
              /\ Len(g.seedPoints) = g.numIslands
              /\ terrain'
                   = applyHeightMap(terrain,
                                    generateHeightMap(g, TRUE, 0).heights)
       ELSE generator'.seedPoints = generator.seedPoints]_vars

\* Both handlers of a finished numIslands change have run, and the seed
\* points are as many as the new numIslands.
C26_Witness ==
  /\ lastOp = "finishChange"
  /\ calls \in { << TRUE, FALSE >>, << FALSE, TRUE >> }
  /\ Len(generator.seedPoints) = generator.numIslands
  /\ terrain.positionZ # << >>

\* C25: register under a name already in the map changes nothing: the
\* module registered first stays and no setupControls call is made; under a
\* new name the module is added and its setupControls called once, then;
\* a name has one module at most; after dispose() the map is empty.
C25_RegisterOncePerName ==
  /\ \A e1, e2 \in guiManager.modules : e1.name = e2.name => e1 = e2
  /\ lastOp = "register" =>
       IF has(probe.before, probe.in.name)
       THEN guiManager = probe.before
       ELSE /\ guiManager.modules
                 = probe.before.modules
                     \cup { [ name |-> probe.in.name,
                              module |-> probe.in.module ] }
            /\ guiManager.setups
                 = Append(probe.before.setups, probe.in.module)
  /\ lastOp = "dispose" => guiManager.modules = {}

\* A second module was registered under the name of the terrain module and
\* left no trace.
C25_Witness ==
  /\ lastOp = "register"
  /\ probe.in = [ name |-> "terrain", module |-> TerrainControls(2) ]
  /\ [ name |-> "terrain", module |-> TerrainControls(1) ]
       \in guiManager.modules
  /\ \A i \in 1..Len(guiManager.setups) :
       guiManager.setups[i] # TerrainControls(2)

\* C27: a finished change of a camera control of the same panel runs
\* neither Terrain.update() nor Terrain.regenerate(), and a finished change
\* of a terrain control runs exactly one sweep.
C27_OnlyTerrainControlsGenerate ==
  /\ lastOp = "cameraFinishChange" => calls = << >>
  /\ lastOp = "finishChange" => Len(calls) = 1

\* C29: after a single start() the one request the browser holds is the
\* one in animationId; dispose() cancels it, and from then on no frame runs:
\* the camera and the water are not updated again.
C29_NoFrameAfterDispose ==
  /\ [](StartsSoFar = 1 =>
          IF Disposed
          THEN frameRequests = {} /\ FramesAfterDispose = 0
          ELSE frameRequests = { animationId })
  /\ [][StartsSoFar = 1 /\ Disposed =>
          /\ camera' = camera
          /\ uTime' = uTime
          /\ animationId' = animationId]_vars

\* The scene was started once, frames ran, and it was disposed of while
\* the clock could still have run a frame.
C29_Witness ==
  /\ StartsSoFar = 1
  /\ Disposed
  /\ animationId >= 3
  /\ now < MaxSceneTime
  /\ frameRequests = {}

=============================================================================
